---- MODULE Spec2Model ----
(***************************************************************************)
(* file-store-mcp: the storage router (NewStorage and the backend          *)
(* constructors), the Empty backend, the clipboard resolver (GetFiles on   *)
(* Linux, Windows, macOS Cocoa and macOS AppleScript) and the three batch  *)
(* tool handlers (uploadFiles, uploadClipboardFiles, uploadUrlFiles).      *)
(*                                                                         *)
(* Text is a sequence of tokens (strings); a path is the sequence of its   *)
(* separators, names and dots, <<"/", "tmp", "/", "a", ".", "txt">>; a     *)
(* multi-line text is a sequence of lines.  A Go error is the sequence of  *)
(* the pieces of its message, the nil error the empty sequence.  A Go      *)
(* slice is a record that keeps nil apart from the empty slice.            *)
(***************************************************************************)
EXTENDS Integers, Sequences, FiniteSets, TLC

\* ------------------------------------------------------------------ bounds
MaxLines == 2
MaxItems == 2
MaxDomainLen == 4
MaxCalls == 2
MaxPieces == 3

\* ------------------------------------------------------------- Go values
NoErr == <<>>
NilSlice == [isNil |-> TRUE, elems |-> <<>>]
MkSlice(s) == [isNil |-> FALSE, elems |-> s]
\* var xs []string followed by appends: nil when nothing was appended
Appended(s) == IF s = <<>> THEN NilSlice ELSE MkSlice(s)
SliceLen(sl) == Len(sl.elems)
\* mutant: only the nil slice counts as no files (paths == nil)
NoFilesNilOnly(paths) == paths.isNil
\* len(paths) == 0: true of nil and of the empty slice
NoFiles(paths) == SliceLen(paths) = 0

SeqsUpTo(S, n) == UNION {[1..k -> S] : k \in 0..n}

HasPrefix(s, p) == Len(s) >= Len(p) /\ SubSeq(s, 1, Len(p)) = p
HasSuffix(s, p) == Len(s) >= Len(p) /\ SubSeq(s, Len(s) - Len(p) + 1, Len(s)) = p
Contains(s, p) == \E i \in 0..(Len(s) - Len(p)) : SubSeq(s, i + 1, i + Len(p)) = p

\* strings.TrimSpace on one line: leading and trailing blanks go
Blank == " "
RECURSIVE TrimLeft(_)
TrimLeft(s) == IF s # <<>> /\ Head(s) = Blank THEN TrimLeft(Tail(s)) ELSE s
RECURSIVE TrimRight(_)
TrimRight(s) ==
    IF s # <<>> /\ s[Len(s)] = Blank THEN TrimRight(SubSeq(s, 1, Len(s) - 1)) ELSE s
TrimSpace(s) == TrimRight(TrimLeft(s))

\* ------------------------------------------------------------ file system
Sep == "/"
BSep == "\\"
HomeDir == <<Sep, "home">>
Cwd == <<Sep, "cwd">>
FsFiles == { <<Sep, "a", ".", "txt">>, <<Sep, "home", Sep, "b", ".", "txt">>, <<Sep, "cwd", Sep, "r", ".", "txt">>,
             <<Sep, "home", Sep, "Documents", Sep, "n", ".", "txt">>,
             <<"C", ":", BSep, "a", ".", "txt">>, <<BSep, BSep, "srv", BSep, "s", ".", "txt">> }
FsDirs == { <<Sep, "d">>, <<"C", ":", BSep, "d">> }
\* os.Stat(path) returns no error
StatOk(p) == p \in FsFiles \cup FsDirs
IsDir(p) == p \in FsDirs

\* mutant: the paths are kept without a look at the disk
ExistingPathsUnchecked(paths) == paths
\* the loop that keeps the paths os.Stat accepts
RECURSIVE ExistingPaths(_)
ExistingPaths(paths) ==
    IF paths = <<>> THEN <<>>
    ELSE IF StatOk(Head(paths)) THEN <<Head(paths)>> \o ExistingPaths(Tail(paths))
    ELSE ExistingPaths(Tail(paths))

\* ------------------------------------------------------- clipboard: Linux
\* the output of a clipboard tool is a sequence of lines
AllBlank(lines) == \A i \in 1..Len(lines) : TrimSpace(lines[i]) = <<>>

\* the escapes GetFiles replaces, one strings.ReplaceAll each
UriDecodeToken(t) ==
    CASE t = "%20" -> " " [] t = "%25" -> "%" [] t = "%23" -> "#" [] t = "%26" -> "&"
      [] t = "%2B" -> "+" [] t = "%2C" -> "," [] t = "%3A" -> ":" [] t = "%3B" -> ";"
      [] t = "%3D" -> "=" [] t = "%3F" -> "?" [] t = "%40" -> "@" [] OTHER -> t

\* the loop over the lines of the URI list: comments and blank lines are
\* skipped, file:// URIs become paths, every other line is dropped
RECURSIVE LinuxUriPaths(_)
LinuxUriPaths(lines) ==
    IF lines = <<>> THEN <<>>
    ELSE LET uri == TrimSpace(Head(lines))
             rest == LinuxUriPaths(Tail(lines))
         IN  IF uri = <<>> \/ HasPrefix(uri, <<"#">>) THEN rest
             ELSE IF HasPrefix(uri, <<"file://">>)
                  THEN <<[i \in 1..Len(Tail(uri)) |-> UriDecodeToken(Tail(uri)[i])]>> \o rest
                  ELSE rest

\* mutant: the URI tier keeps the paths that exist only
LinuxUriTierExisting(ok, outs) ==
    LET ops == IF ok["xclip-uri"] THEN <<"xclip-uri">>
               ELSE <<"xclip-uri", "wl-paste-uri">>
        out == IF ok["xclip-uri"] THEN outs["xclip-uri"] ELSE outs["wl-paste-uri"]
        failed == ~ok["xclip-uri"] /\ ~ok["wl-paste-uri"]
        paths == IF ~failed /\ out # <<>> /\ ~AllBlank(out)
                 THEN ExistingPaths(LinuxUriPaths(out)) ELSE <<>>
    IN  [send |-> paths # <<>>, chan |-> "result", paths |-> MkSlice(paths),
         err |-> NoErr, ops |-> ops]

\* The URI tier of the Linux worker.  ok[t] says whether tool t exits
\* without error, outs[t] is what tool t prints.  xclip runs first; wl-paste
\* runs, and its output replaces xclip's, only if xclip failed.
\* send: the worker sends paths on resultChan and returns.
LinuxUriTier(ok, outs) ==
    LET ops == IF ok["xclip-uri"] THEN <<"xclip-uri">>
               ELSE <<"xclip-uri", "wl-paste-uri">>
        out == IF ok["xclip-uri"] THEN outs["xclip-uri"] ELSE outs["wl-paste-uri"]
        failed == ~ok["xclip-uri"] /\ ~ok["wl-paste-uri"]
        paths == IF ~failed /\ out # <<>> /\ ~AllBlank(out)
                 THEN LinuxUriPaths(out) ELSE <<>>
    IN  [send |-> paths # <<>>, chan |-> "result", paths |-> MkSlice(paths),
         err |-> NoErr, ops |-> ops]

\* parseFilePaths (Linux): the trimmed non-blank lines that begin with "/"
\* or "~/", the latter with the home directory in place of "~"
RECURSIVE LinuxParseFilePaths(_, _)
LinuxParseFilePaths(lines, homeOk) ==
    IF lines = <<>> THEN <<>>
    ELSE LET line == TrimSpace(Head(lines))
             rest == LinuxParseFilePaths(Tail(lines), homeOk)
         IN  IF line = <<>> THEN rest
             ELSE IF HasPrefix(line, <<Sep>>) \/ HasPrefix(line, <<"~", Sep>>)
                  THEN <<IF HasPrefix(line, <<"~", Sep>>) /\ homeOk
                         THEN HomeDir \o Tail(line) ELSE line>> \o rest
                  ELSE rest

\* mutant: the failure of every text tool is sent on errChan
LinuxTextTierReportsFailure(ok, outs, homeOk) ==
    LET ops == IF ok["xclip-text"] THEN <<"xclip-text">>
               ELSE IF ok["xsel-text"] THEN <<"xclip-text", "xsel-text">>
               ELSE <<"xclip-text", "xsel-text", "wl-paste-text">>
        out == IF ok["xclip-text"] THEN outs["xclip-text"]
               ELSE IF ok["xsel-text"] THEN outs["xsel-text"]
               ELSE outs["wl-paste-text"]
        failed == ~ok["xclip-text"] /\ ~ok["xsel-text"] /\ ~ok["wl-paste-text"]
        paths == IF AllBlank(out) THEN MkSlice(<<>>)
                 ELSE Appended(ExistingPaths(LinuxParseFilePaths(out, homeOk)))
    IN  IF failed
        THEN [send |-> TRUE, chan |-> "err", paths |-> NilSlice,
              err |-> <<"no clipboard tool available">>, ops |-> ops]
        ELSE [send |-> TRUE, chan |-> "result", paths |-> paths, err |-> NoErr, ops |-> ops]
\* mutant: the text of the last tool of the chain is used
LinuxTextTierLastToolWins(ok, outs, homeOk) ==
    [send |-> TRUE, chan |-> "result",
     paths |-> IF AllBlank(outs["wl-paste-text"]) THEN MkSlice(<<>>)
               ELSE Appended(ExistingPaths(LinuxParseFilePaths(outs["wl-paste-text"], homeOk))),
     err |-> NoErr, ops |-> <<"xclip-text", "xsel-text", "wl-paste-text">>]
\* The text tier of the Linux worker: xclip, then xsel if xclip failed, then
\* wl-paste if xsel failed too; each run replaces the output of the one before.
LinuxTextTier(ok, outs, homeOk) ==
    LET ops == IF ok["xclip-text"] THEN <<"xclip-text">>
               ELSE IF ok["xsel-text"] THEN <<"xclip-text", "xsel-text">>
               ELSE <<"xclip-text", "xsel-text", "wl-paste-text">>
        out == IF ok["xclip-text"] THEN outs["xclip-text"]
               ELSE IF ok["xsel-text"] THEN outs["xsel-text"]
               ELSE outs["wl-paste-text"]
        failed == ~ok["xclip-text"] /\ ~ok["xsel-text"] /\ ~ok["wl-paste-text"]
        paths == IF failed \/ AllBlank(out) THEN MkSlice(<<>>)
                 ELSE Appended(ExistingPaths(LinuxParseFilePaths(out, homeOk)))
    IN  [send |-> TRUE, chan |-> "result", paths |-> paths, err |-> NoErr, ops |-> ops]

\* ----------------------------------------------------- clipboard: Windows
ErrOpenClipboard == <<"open clipboard failed">>
ErrGetData == <<"get clipboard data failed">>
ErrGetText == <<"get clipboard text failed">>
ErrLock == <<"lock clipboard memory failed">>

\* mutant: an empty CF_HDROP list lets the worker go on to the text
WindowsFileTierEmptyFallsThrough(e) ==
    IF ~e.openOk
    THEN [send |-> TRUE, chan |-> "err", paths |-> NilSlice, err |-> ErrOpenClipboard,
          ops |-> <<"OpenClipboard">>]
    ELSE IF e.hdrop /\ ~e.dataOk
    THEN [send |-> TRUE, chan |-> "err", paths |-> NilSlice, err |-> ErrGetData,
          ops |-> <<"OpenClipboard", "CF_HDROP?", "GetClipboardData(CF_HDROP)">>]
    ELSE IF e.hdrop /\ ~e.lockOk
    THEN [send |-> TRUE, chan |-> "err", paths |-> NilSlice, err |-> ErrLock,
          ops |-> <<"OpenClipboard", "CF_HDROP?", "GetClipboardData(CF_HDROP)",
                    "GlobalLock">>]
    ELSE [send |-> e.hdrop /\ e.files # <<>>, chan |-> "result",
          paths |-> IF e.hdrop THEN Appended(e.files) ELSE NilSlice, err |-> NoErr,
          ops |-> <<"OpenClipboard", "CF_HDROP?">>]

\* The CF_HDROP tier of the Windows worker.  e: openOk, hdrop (the format
\* is available), dataOk (GetClipboardData), lockOk (GlobalLock), files
\* (what DragQueryFileW lists).  send = FALSE: the worker goes on to the text.
WindowsFileTier(e) ==
    IF ~e.openOk
    THEN [send |-> TRUE, chan |-> "err", paths |-> NilSlice, err |-> ErrOpenClipboard,
          ops |-> <<"OpenClipboard">>]
    ELSE IF e.hdrop
    THEN IF ~e.dataOk
         THEN [send |-> TRUE, chan |-> "err", paths |-> NilSlice, err |-> ErrGetData,
               ops |-> <<"OpenClipboard", "CF_HDROP?", "GetClipboardData(CF_HDROP)">>]
         ELSE IF ~e.lockOk
         THEN [send |-> TRUE, chan |-> "err", paths |-> NilSlice, err |-> ErrLock,
               ops |-> <<"OpenClipboard", "CF_HDROP?", "GetClipboardData(CF_HDROP)",
                         "GlobalLock">>]
         ELSE [send |-> TRUE, chan |-> "result", paths |-> Appended(e.files),
               err |-> NoErr,
               ops |-> <<"OpenClipboard", "CF_HDROP?", "GetClipboardData(CF_HDROP)",
                         "GlobalLock", "DragQueryFileW">>]
    ELSE [send |-> FALSE, chan |-> "result", paths |-> NilSlice, err |-> NoErr,
          ops |-> <<"OpenClipboard", "CF_HDROP?">>]

WinNormalize(t) == IF t = Sep THEN BSep ELSE t

\* parseFilePaths (Windows): a drive letter, a colon and a separator, or a
\* UNC prefix; separators are normalised to backslashes
RECURSIVE WindowsParseFilePaths(_)
WindowsParseFilePaths(lines) ==
    IF lines = <<>> THEN <<>>
    ELSE LET line == TrimSpace(Head(lines))
             rest == WindowsParseFilePaths(Tail(lines))
         IN  IF line = <<>> THEN rest
             ELSE IF (Len(line) >= 3 /\ line[2] = ":" /\ (line[3] = BSep \/ line[3] = Sep))
                     \/ HasPrefix(line, <<BSep, BSep>>)
                  THEN <<[i \in 1..Len(line) |-> WinNormalize(line[i])]>> \o rest
                  ELSE rest

\* The CF_UNICODETEXT tier of the Windows worker.  e: text (the format is
\* available), dataOk, lockOk, lines.
WindowsTextTier(e) ==
    IF ~e.text
    THEN [send |-> TRUE, chan |-> "result", paths |-> MkSlice(<<>>), err |-> NoErr,
          ops |-> <<"CF_UNICODETEXT?">>]
    ELSE IF ~e.dataOk
    THEN [send |-> TRUE, chan |-> "err", paths |-> NilSlice, err |-> ErrGetText,
          ops |-> <<"CF_UNICODETEXT?", "GetClipboardData(CF_UNICODETEXT)">>]
    ELSE IF ~e.lockOk
    THEN [send |-> TRUE, chan |-> "err", paths |-> NilSlice, err |-> ErrLock,
          ops |-> <<"CF_UNICODETEXT?", "GetClipboardData(CF_UNICODETEXT)", "GlobalLock">>]
    ELSE [send |-> TRUE, chan |-> "result",
          paths |-> IF e.lines = <<>> THEN MkSlice(<<>>)
                    ELSE Appended(ExistingPaths(WindowsParseFilePaths(e.lines))),
          err |-> NoErr,
          ops |-> <<"CF_UNICODETEXT?", "GetClipboardData(CF_UNICODETEXT)", "GlobalLock",
                    "parse">>]

\* ------------------------------------------------- clipboard: macOS Cocoa
\* The file-URL tier of the Cocoa worker: files is what the pasteboard
\* yields as file URLs (count > 0 && cPaths != nil).
CocoaFileTier(files) ==
    [send |-> files # <<>>, chan |-> "result", paths |-> MkSlice(files), err |-> NoErr,
     ops |-> <<"getClipboardFilePaths">>]

\* parseFileNames: the trimmed non-blank lines
RECURSIVE ParseFileNames(_)
ParseFileNames(lines) ==
    IF lines = <<>> THEN <<>>
    ELSE LET line == TrimSpace(Head(lines))
         IN  IF line # <<>> THEN <<line>> \o ParseFileNames(Tail(lines))
             ELSE ParseFileNames(Tail(lines))

CommonDirs == << HomeDir \o <<Sep, "Desktop">>, HomeDir \o <<Sep, "Documents">>,
                 HomeDir \o <<Sep, "Downloads">>, HomeDir \o <<Sep, "Pictures">>,
                 HomeDir \o <<Sep, "Movies">>, HomeDir \o <<Sep, "Music">> >>

\* the first common directory that holds name, 0 when none does
FirstDirWith(name) ==
    LET hits == {i \in 1..Len(CommonDirs) : StatOk(CommonDirs[i] \o <<Sep>> \o name)}
    IN  IF hits = {} THEN 0 ELSE CHOOSE i \in hits : \A j \in hits : i <= j

\* findFilesByNames: per name the first common directory that holds it,
\* else the first Spotlight hit (spot: the names Spotlight finds)
RECURSIVE FindFilesByNames(_, _)
FindFilesByNames(names, spot) ==
    IF names = <<>> THEN <<>>
    ELSE LET name == Head(names)
             rest == FindFilesByNames(Tail(names), spot)
         IN  IF FirstDirWith(name) # 0
             THEN <<CommonDirs[FirstDirWith(name)] \o <<Sep>> \o name>> \o rest
             ELSE IF name \in spot THEN <<<<Sep, "spotlight", Sep>> \o name>> \o rest
             ELSE rest

\* The text tier of the Cocoa worker.  e: text (the pasteboard has a
\* string), lines, spot.
CocoaTextTier(e) ==
    IF ~e.text
    THEN [send |-> TRUE, chan |-> "result", paths |-> MkSlice(<<>>), err |-> NoErr,
          ops |-> <<"getClipboardText">>]
    ELSE IF ParseFileNames(e.lines) = <<>>
    THEN [send |-> TRUE, chan |-> "result", paths |-> MkSlice(<<>>), err |-> NoErr,
          ops |-> <<"getClipboardText", "parseFileNames">>]
    ELSE [send |-> TRUE, chan |-> "result",
          paths |-> Appended(FindFilesByNames(ParseFileNames(e.lines), e.spot)),
          err |-> NoErr,
          ops |-> <<"getClipboardText", "parseFileNames", "findFilesByNames">>]

\* -------------------------------------------- clipboard: macOS AppleScript
ErrTimeoutGet == <<"get file paths timed out">>
ErrTimeoutFind == <<"find files timed out">>
IsTimeout(err) == err \in {ErrTimeoutGet, ErrTimeoutFind}
ErrKilled == <<"signal: killed">>
ErrExit == <<"exit status 1">>

\* What GetFiles makes of the script's standard output once cmd.Run has
\* returned without error: pieces are the parts between the delimiters.
ScriptOutputPaths(pieces) ==
    IF pieces = <<>> \/ (Len(pieces) = 1 /\ TrimSpace(pieces[1]) = <<>>)
    THEN MkSlice(<<>>)
    ELSE Appended(ParseFileNames(pieces))

\* The checks after cmd.Run: the deadline first, then the error, then the output.
ScriptOutcome(ctxErr, runErr, pieces) ==
    IF ctxErr = "DeadlineExceeded" THEN [paths |-> NilSlice, err |-> ErrTimeoutFind]
    ELSE IF runErr # NoErr
    THEN [paths |-> NilSlice, err |-> <<"script error: ">> \o runErr \o <<", stderr: ">>]
    ELSE [paths |-> ScriptOutputPaths(pieces), err |-> NoErr]

\* ---------------------------------------------------------------- storage
\* strings.ToLower, character by character
UpperChars == <<"A", "B", "C", "D", "E", "F", "G", "H", "I", "J", "K", "L", "M",
                "N", "O", "P", "Q", "R", "S", "T", "U", "V", "W", "X", "Y", "Z">>
LowerChars == <<"a", "b", "c", "d", "e", "f", "g", "h", "i", "j", "k", "l", "m",
                "n", "o", "p", "q", "r", "s", "t", "u", "v", "w", "x", "y", "z">>
LowerChar(c) ==
    IF \E i \in 1..Len(UpperChars) : UpperChars[i] = c
    THEN LowerChars[CHOOSE i \in 1..Len(UpperChars) : UpperChars[i] = c]
    ELSE c
\* mutant: the type is compared as written
ToLowerSkipped(s) == s
ToLower(s) == [i \in 1..Len(s) |-> LowerChar(s[i])]

StorageTypeEmpty == <<"e", "m", "p", "t", "y">>
StorageTypeS3 == <<"s", "3">>
StorageTypeOSS == <<"o", "s", "s">>
StorageTypeCOS == <<"c", "o", "s">>
StorageTypeQiniu == <<"q", "i", "n", "i", "u">>
StorageTypeGitHub == <<"g", "i", "t", "h", "u", "b">>

\* getEnv: the default stands in for an unset or empty variable
getEnv(value, defaultValue) == IF value = <<>> THEN defaultValue ELSE value

\* ------------------------------------------------------------------ int64
\* An int64 is its two's complement in four 16-bit limbs, least significant
\* first; a product keeps the width of its operand, as Go's does.
Int64Limbs == 4
LimbBase == 65536
Zero(w) == [i \in 1..w |-> 0]
IsNegative(a) == a[Len(a)] >= LimbBase \div 2
IsPositive(a) == ~IsNegative(a) /\ \E i \in 1..Len(a) : a[i] # 0
\* a * m + carry for a small m, the carry out of the top limb dropped
RECURSIVE TimesSmall(_, _, _)
TimesSmall(a, m, carry) ==
    IF a = <<>> THEN <<>>
    ELSE <<(a[1] * m + carry) % LimbBase>>
         \o TimesSmall(Tail(a), m, (a[1] * m + carry) \div LimbBase)
Negate(a) == TimesSmall([i \in 1..Len(a) |-> LimbBase - 1 - a[i]], 1, 1)
\* sign extension to w limbs
Widen(a, w) ==
    [i \in 1..w |-> IF i <= Len(a) THEN a[i]
                    ELSE IF IsNegative(a) THEN LimbBase - 1 ELSE 0]

DigitChars == <<"0", "1", "2", "3", "4", "5", "6", "7", "8", "9">>
IsDigit(c) == \E d \in 1..Len(DigitChars) : DigitChars[d] = c
DigitValue(c) == (CHOOSE d \in 1..Len(DigitChars) : DigitChars[d] = c) - 1
\* the value of a run of decimal digits, in w limbs
RECURSIVE FromDecimal(_, _)
FromDecimal(digits, w) ==
    IF digits = <<>> THEN Zero(w)
    ELSE TimesSmall(FromDecimal(SubSeq(digits, 1, Len(digits) - 1), w), 10,
                    DigitValue(digits[Len(digits)]))

\* strconv.ParseInt's range check, on the digits of the magnitude
MaxInt64Digits == <<"9", "2", "2", "3", "3", "7", "2", "0", "3", "6",
                    "8", "5", "4", "7", "7", "5", "8", "0", "7">>
RECURSIVE DropZeros(_)
DropZeros(digits) ==
    IF digits # <<>> /\ digits[1] = "0" THEN DropZeros(Tail(digits)) ELSE digits
RECURSIVE DigitsLeq(_, _)
DigitsLeq(a, b) ==
    IF a = <<>> THEN TRUE
    ELSE IF a[1] # b[1] THEN DigitValue(a[1]) < DigitValue(b[1])
    ELSE DigitsLeq(Tail(a), Tail(b))
InRange(digits, neg) ==
    LET m == DropZeros(digits)
    IN  \/ Len(m) < Len(MaxInt64Digits)
        \/ /\ Len(m) = Len(MaxInt64Digits)
           /\ \/ DigitsLeq(m, MaxInt64Digits)
              \/ neg /\ m = [MaxInt64Digits EXCEPT ![Len(MaxInt64Digits)] = "8"]

\* fmt.Sscanf(value, "%d", &result): leading spaces are skipped, one sign is
\* accepted, then the run of digits is the number; what follows the run is
\* not looked at.  No digit, or a number out of int64's range, is an error.
RECURSIVE SkipSpace(_)
SkipSpace(s) == IF s # <<>> /\ s[1] = " " THEN SkipSpace(Tail(s)) ELSE s
RECURSIVE LeadingDigits(_)
LeadingDigits(s) ==
    IF s # <<>> /\ IsDigit(s[1]) THEN <<s[1]>> \o LeadingDigits(Tail(s)) ELSE <<>>
Sscanf(value) ==
    LET v == SkipSpace(value)
        signed == v # <<>> /\ v[1] \in {"+", "-"}
        neg == v # <<>> /\ v[1] = "-"
        tok == LeadingDigits(IF signed THEN Tail(v) ELSE v)
    IN  IF tok = <<>> \/ ~InRange(tok, neg)
        THEN [err |-> TRUE, result |-> Zero(Int64Limbs)]
        ELSE [err |-> FALSE,
              result |-> IF neg THEN Negate(FromDecimal(tok, Int64Limbs))
                         ELSE FromDecimal(tok, Int64Limbs)]

\* getEnvInt64
getEnvInt64(value, defaultValue) ==
    IF value = <<>> THEN defaultValue
    ELSE IF Sscanf(value).err THEN defaultValue
    ELSE Sscanf(value).result

\* 7 days, in seconds
DefaultExpirationDigits == <<"6", "0", "4", "8", "0", "0">>
DefaultExpiration == FromDecimal(DefaultExpirationDigits, Int64Limbs)
\* d * time.Second: a time.Duration counts nanoseconds, time.Second is 10^9
TimesSecond(a) == TimesSmall(TimesSmall(TimesSmall(a, 1000, 0), 1000, 0), 1000, 0)
\* the constructors' expiration: time.Hour * 24 * 7 unless the configured
\* value is positive
Expiration(urlExpiration) ==
    IF IsPositive(urlExpiration) THEN TimesSecond(urlExpiration)
    ELSE TimesSecond(DefaultExpiration)

\* what a constructor returns: a panic, an error, or a client
CtorPanic == [panic |-> TRUE, err |-> NoErr,
              client |-> [kind |-> "none", info |-> <<>>, domain |-> <<>>, expiration |-> Zero(Int64Limbs)]]
CtorErr(e) == [panic |-> FALSE, err |-> e,
               client |-> [kind |-> "none", info |-> <<>>, domain |-> <<>>, expiration |-> Zero(Int64Limbs)]]
CtorOk(kind, domain, expiration) ==
    [panic |-> FALSE, err |-> NoErr,
     client |-> [kind |-> kind, info |-> <<>>, domain |-> domain, expiration |-> expiration]]

\* empty.New
EmptyNew(info) == [kind |-> "empty", info |-> info, domain |-> <<>>, expiration |-> Zero(Int64Limbs)]

HttpPrefix == <<"h", "t", "t", "p">>

\* mutant: the constructor without its check of the domain
NewQiniuClientNoDomainCheck(cfg) ==
    IF cfg.AccessKey = <<>> \/ cfg.SecretKey = <<>>
    THEN CtorErr(<<"AccessKey", " and ", "SecretKey", " cannot be empty">>)
    ELSE IF cfg.BucketName = <<>>
    THEN CtorErr(<<"BucketName", " cannot be empty">>)
    ELSE CtorOk("qiniu", cfg.Domain, Expiration(cfg.URLExpiration))

\* NewQiniuClient.  domain[0:4] on a domain shorter than four characters is
\* a slice out of range: the Go runtime panics.
NewQiniuClient(cfg) ==
    IF cfg.AccessKey = <<>> \/ cfg.SecretKey = <<>>
    THEN CtorErr(<<"AccessKey", " and ", "SecretKey", " cannot be empty">>)
    ELSE IF cfg.BucketName = <<>>
    THEN CtorErr(<<"BucketName", " cannot be empty">>)
    ELSE IF cfg.Domain = <<>>
    THEN CtorErr(<<"domain", " cannot be empty, Qiniu requires a custom domain for access">>)
    ELSE LET stripped == IF cfg.Domain[Len(cfg.Domain)] = "/"
                         THEN SubSeq(cfg.Domain, 1, Len(cfg.Domain) - 1)
                         ELSE cfg.Domain
         IN  IF Len(stripped) > 0 /\ Len(stripped) < 4 THEN CtorPanic
             ELSE CtorOk("qiniu",
                         IF Len(stripped) > 0 /\ SubSeq(stripped, 1, 4) # HttpPrefix
                         THEN <<"h", "t", "t", "p", ":", "/", "/">> \o stripped
                         ELSE stripped,
                         Expiration(cfg.URLExpiration))

\* NewGitHubClient
NewGitHubClient(cfg) ==
    IF cfg.Token = <<>>
    THEN CtorErr(<<"GitHub access ", "token", " cannot be empty">>)
    ELSE IF cfg.Owner = <<>> \/ cfg.Repo = <<>>
    THEN CtorErr(<<"repository ", "owner", " and ", "name", " cannot be empty">>)
    ELSE CtorOk("github", cfg.CustomDomain, Zero(Int64Limbs))

\* NewS3Client, NewOSSClient, NewCOSClient: no field is required; the only
\* failure is the provider SDK's (sdkOk = FALSE), wrapped.
NewS3Client(cfg) ==
    IF ~cfg.sdkOk THEN CtorErr(<<"failed to load AWS SDK configuration: ", "sdk error">>)
    ELSE CtorOk("s3", <<>>, Expiration(cfg.URLExpiration))
NewOSSClient(cfg) ==
    IF ~cfg.sdkOk THEN CtorErr(<<"failed to create OSS client: ", "sdk error">>)
    ELSE CtorOk("oss", cfg.Domain, Expiration(cfg.URLExpiration))
NewCOSClient(cfg) ==
    IF ~cfg.sdkOk THEN CtorErr(<<"failed to parse COS service URL: ", "sdk error">>)
    ELSE CtorOk("cos", cfg.Domain, Expiration(cfg.URLExpiration))

\* initS3StorageWithConfig ... initGitHubStorageWithConfig: a constructor
\* error becomes the Empty backend holding the error's text; a panic is
\* not recovered.  ctor names the constructor that ran.
InitWith(ctor, r) ==
    [panic |-> r.panic, ctor |-> ctor,
     backend |-> IF r.err # NoErr THEN EmptyNew(r.err) ELSE r.client]

\* NewStorage
NewStorage(config) ==
    LET t == ToLower(config.StorageType)
    IN  IF t = StorageTypeS3 THEN InitWith("s3", NewS3Client(config.S3))
        ELSE IF t = StorageTypeOSS THEN InitWith("oss", NewOSSClient(config.OSS))
        ELSE IF t = StorageTypeCOS THEN InitWith("cos", NewCOSClient(config.COS))
        ELSE IF t = StorageTypeQiniu THEN InitWith("qiniu", NewQiniuClient(config.Qiniu))
        ELSE IF t = StorageTypeGitHub THEN InitWith("github", NewGitHubClient(config.GitHub))
        ELSE [panic |-> FALSE, ctor |-> "none", backend |-> EmptyNew(<<>>)]

\* EmptyStorage.UploadFile and EmptyStorage.Upload
ErrNotConfigured == <<"storage service not configured or initialization failed. ">>
\* mutant: the fixed message without the stored reason
EmptyUploadFileNoReason(e, path) == [url |-> <<>>, err |-> ErrNotConfigured]
EmptyUploadFile(e, path) == [url |-> <<>>, err |-> ErrNotConfigured \o e.info]
EmptyUpload(e, filename) == [url |-> <<>>, err |-> ErrNotConfigured \o e.info]

\* Storage.UploadFile / Storage.Upload on the active backend.  For a
\* provider backend net is what the provider call does.
StorageUploadFile(b, path, filename, net) ==
    IF b.kind = "empty" THEN EmptyUploadFile(b, path)
    ELSE IF net = "ok" THEN [url |-> <<"url:", b.kind, ":">> \o filename, err |-> NoErr]
    ELSE [url |-> <<>>, err |-> <<"failed to upload file to ", b.kind>>]
StorageUpload(b, filename, net) ==
    IF b.kind = "empty" THEN EmptyUpload(b, filename)
    ELSE IF net = "ok" THEN [url |-> <<"url:", b.kind, ":">> \o filename, err |-> NoErr]
    ELSE [url |-> <<>>, err |-> <<"failed to upload file to ", b.kind>>]
NetOutcomes == {"ok", "fail"}

\* ----------------------------------------------------------- object keys
\* A file name and a key template are sequences of tokens in which a dot
\* and each brace is a token of its own: "{ext}" is <<"{", "ext", "}">>.
\* strings.ReplaceAll(s, old, new): leftmost matches, not overlapping; the
\* text put in is not searched again by the same call
RECURSIVE ReplaceAll(_, _, _)
ReplaceAll(s, old, new) ==
    IF Len(s) < Len(old) THEN s
    ELSE IF SubSeq(s, 1, Len(old)) = old
    THEN new \o ReplaceAll(SubSeq(s, Len(old) + 1, Len(s)), old, new)
    ELSE <<Head(s)>> \o ReplaceAll(Tail(s), old, new)

\* filepath.Ext: from the last dot of the last path element to the end
RECURSIVE Ext(_)
Ext(name) ==
    IF name = <<>> \/ name[Len(name)] = Sep THEN <<>>
    ELSE IF name[Len(name)] = "." THEN <<".">>
    ELSE LET e == Ext(SubSeq(name, 1, Len(name) - 1))
         IN  IF e = <<>> THEN <<>> ELSE Append(e, name[Len(name)])
\* strings.TrimSuffix
TrimSuffix(s, suffix) ==
    IF HasSuffix(s, suffix) THEN SubSeq(s, 1, Len(s) - Len(suffix)) ELSE s

Placeholder(word) == <<"{", word, "}">>

\* const charset, and the loop that fills randStr: one rand.Intn(len(charset))
\* per character
Charset == LowerChars \o UpperChars \o DigitChars
RECURSIVE RandString(_)
RandString(intn) ==
    IF intn = <<>> THEN "" ELSE Charset[Head(intn) + 1] \o RandString(Tail(intn))

\* the first occurrence of old replaced by first, the later ones by rest
RECURSIVE ReplaceFirstThen(_, _, _, _)
ReplaceFirstThen(s, old, first, rest) ==
    IF Len(s) < Len(old) THEN s
    ELSE IF SubSeq(s, 1, Len(old)) = old
    THEN first \o ReplaceAll(SubSeq(s, Len(old) + 1, Len(s)), old, rest)
    ELSE <<Head(s)>> \o ReplaceFirstThen(Tail(s), old, first, rest)

\* mutant: a new identifier is generated for every later {uuid}
FormatObjectKeyUuidPerOccurrence(filename, format, now) ==
    IF format = <<>> THEN <<now.timestamp, "/">> \o filename
    ELSE LET fileExt == Ext(filename)
             fileNameWithoutExt == TrimSuffix(filename, fileExt)
             r1 == ReplaceAll(format, Placeholder("filename"), fileNameWithoutExt)
             r2 == ReplaceAll(r1, Placeholder("ext"), fileExt)
             r3 == ReplaceAll(r2, Placeholder("timestamp"), <<now.timestamp>>)
             r4 == ReplaceFirstThen(r3, Placeholder("uuid"), <<now.uuid>>,
                                    <<"7c9e6679-7425-40de-944b-e07fc1f90ae7">>)
         IN  ReplaceAll(r4, Placeholder("rand"), <<RandString(now.rand)>>)

\* mutant: the empty template is expanded like "{timestamp}/{filename}{ext}"
FormatObjectKeyExpandsDefault(filename, format, now) ==
    LET fileExt == Ext(filename)
        fileNameWithoutExt == TrimSuffix(filename, fileExt)
        f == IF format = <<>>
             THEN Placeholder("timestamp") \o <<"/">> \o Placeholder("filename")
                  \o Placeholder("ext")
             ELSE format
        r1 == ReplaceAll(f, Placeholder("filename"), fileNameWithoutExt)
        r2 == ReplaceAll(r1, Placeholder("ext"), fileExt)
        r3 == ReplaceAll(r2, Placeholder("timestamp"), <<now.timestamp>>)
        r4 == ReplaceAll(r3, Placeholder("uuid"), <<now.uuid>>)
    IN  ReplaceAll(r4, Placeholder("rand"), <<RandString(now.rand)>>)

\* FormatObjectKey.  now holds what the call draws: time.Now().Unix() in
\* decimal, uuid.New().String() and the six results of rand.Intn.
FormatObjectKey(filename, format, now) ==
    IF format = <<>> THEN <<now.timestamp, "/">> \o filename
    ELSE LET fileExt == Ext(filename)
             fileNameWithoutExt == TrimSuffix(filename, fileExt)
             r1 == ReplaceAll(format, Placeholder("filename"), fileNameWithoutExt)
             r2 == ReplaceAll(r1, Placeholder("ext"), fileExt)
             r3 == ReplaceAll(r2, Placeholder("timestamp"), <<now.timestamp>>)
             r4 == ReplaceAll(r3, Placeholder("uuid"), <<now.uuid>>)
         IN  ReplaceAll(r4, Placeholder("rand"), <<RandString(now.rand)>>)

\* the values a call of FormatObjectKey draws
Nows == { [timestamp |-> "1700000000", uuid |-> "6ba7b810-9dad-11d1-80b4-00c04fd430c8",
           rand |-> <<23, 59, 36, 16, 54, 51>>],
          [timestamp |-> "1700000001", uuid |-> "7c9e6679-7425-40de-944b-e07fc1f90ae7",
           rand |-> <<0, 61, 0, 25, 26, 52>>] }

\* ------------------------------------------------------------ validation
\* filepath.Abs: a relative path is joined to the working directory; on
\* Windows a drive or UNC path is absolute
IsAbs(p, plat) ==
    IF plat = "windows"
    THEN (Len(p) >= 3 /\ p[2] = ":" /\ p[3] = BSep) \/ HasPrefix(p, <<BSep, BSep>>)
    ELSE HasPrefix(p, <<Sep>>)
Abs(p, plat) ==
    IF IsAbs(p, plat) THEN p
    ELSE IF plat = "windows" THEN <<"C", ":", BSep, "cwd", BSep>> \o p
    ELSE Cwd \o <<Sep>> \o p

ErrPathEmpty == <<"path cannot be empty">>
\* mutant: a directory is reported with the message of the empty path
ErrPathDirAsEmpty == <<"path cannot be empty">>
ErrPathDir == <<"path cannot be a directory">>
ErrInvalidPath(abs) == <<"invalid path: ", "stat ">> \o abs \o <<": no such file or directory">>

\* mutant: best effort, a rejected path is left out and the others returned
RECURSIVE ValidatePathsBestEffort(_, _)
ValidatePathsBestEffort(paths, plat) ==
    IF paths = <<>> THEN [paths |-> MkSlice(<<>>), err |-> NoErr]
    ELSE LET path == Head(paths)
             abs == Abs(path, plat)
             r == ValidatePathsBestEffort(Tail(paths), plat)
         IN  IF path = <<>> \/ ~StatOk(abs) \/ IsDir(abs) THEN r
             ELSE [paths |-> MkSlice(<<abs>> \o r.paths.elems), err |-> NoErr]

\* mutant: only the first path is checked, the others are made absolute
ValidatePathsFirstOnly(paths, plat) ==
    IF paths = <<>> THEN [paths |-> MkSlice(<<>>), err |-> NoErr]
    ELSE LET path == Head(paths)
             abs == Abs(path, plat)
         IN  IF path = <<>> THEN [paths |-> NilSlice, err |-> ErrPathEmpty]
             ELSE IF ~StatOk(abs) THEN [paths |-> NilSlice, err |-> ErrInvalidPath(abs)]
             ELSE IF IsDir(abs) THEN [paths |-> NilSlice, err |-> ErrPathDir]
             ELSE [paths |-> MkSlice([i \in 1..Len(paths) |-> Abs(paths[i], plat)]),
                   err |-> NoErr]

\* Service.ValidatePaths: the first rejected path ends the loop
RECURSIVE ValidatePaths(_, _)
ValidatePaths(paths, plat) ==
    IF paths = <<>> THEN [paths |-> MkSlice(<<>>), err |-> NoErr]
    ELSE LET path == Head(paths)
             abs == Abs(path, plat)
         IN  IF path = <<>> THEN [paths |-> NilSlice, err |-> ErrPathEmpty]
             ELSE IF ~StatOk(abs) THEN [paths |-> NilSlice, err |-> ErrInvalidPath(abs)]
             ELSE IF IsDir(abs) THEN [paths |-> NilSlice, err |-> ErrPathDir]
             ELSE LET r == ValidatePaths(Tail(paths), plat)
                  IN  IF r.err # NoErr THEN r
                      ELSE [paths |-> MkSlice(<<abs>> \o r.paths.elems), err |-> NoErr]

\* ----------------------------------------------------------------- inputs
Platforms == {"linux", "windows", "darwin-cocoa", "darwin-applescript"}
GoroutinePlatforms == {"linux", "windows", "darwin-cocoa"}

\* make(chan []string, 1), make(chan error, 1)
ChanCap == 1
\* clip.GetFiles(5) in handleUploadClipboardFiles
ClipTimeoutSeconds == 5
TimeoutValues == {0, ClipTimeoutSeconds}

LinuxUriLines == { <<"file://", Sep, "a", ".", "txt">>, <<"file://", Sep, "no", "%20", "file">>,
                   <<"file://", Sep, "d">>, <<"#", "comment">>, <<"http://", "host">>, <<Blank>> }
LinuxTextLines == { <<Sep, "a", ".", "txt">>, <<"~", Sep, "b", ".", "txt">>, <<Sep, "missing">>,
                    <<Blank, Sep, "d">>, <<"hello">>, <<"~", "b", ".", "txt">>, <<>> }
WindowsFiles == { <<"C", ":", BSep, "a", ".", "txt">>, <<"C", ":", BSep, "gone", ".", "txt">>,
                  <<"C", ":", BSep, "d">> }
WindowsTextLines == { <<"C", ":", Sep, "a", ".", "txt">>, <<BSep, BSep, "srv", BSep, "s", ".", "txt">>,
                      <<"C", ":", BSep, "gone", ".", "txt">>, <<"hello">>,
                      <<"C", ":", "a", ".", "txt">>, <<Blank, "C", ":", BSep, "d", Blank>>,
                      <<"1", ":", BSep, "a", ".", "txt">>, <<>> }
CocoaFiles == { <<Sep, "a", ".", "txt">>, <<Sep, "missing">>, <<Sep, "d">> }
CocoaTextLines == { <<"n", ".", "txt">>, <<"s", ".", "txt">>, <<"nowhere">>, <<Blank>> }
ScriptPieces == { <<Sep, "a", ".", "txt">>, <<Sep, "home", Sep, "Documents", Sep, "n", ".", "txt">>, <<Blank>> }

\* ------------------------------------------------------------------ state
VARIABLES
    platform,    \* the build's clipboard variant
    proc,        \* "running", or "crashed" after an unrecovered panic
    svc,         \* storage.Service: Config and Storage (the backend); fileFormat:
                 \* the process's FSM_FILE_FORMAT; history: constructed, envType
                 \* (FSM_STORAGE_TYPE), envExpiration (FSM_*_URL_EXPIRATION as
                 \* written), ctor (the constructor run)
    svcCalls,    \* the results of the UploadFile / Upload calls made on the service
    gfPc,        \* GetFiles: "idle", "select", "run", "check", "returned"
    gfCaller,    \* who called GetFiles: "none", "api", "handler"
    ctx,         \* the context: "none", "active", "DeadlineExceeded", "Canceled"
    wPc,         \* the worker goroutine: "none", "file", "text", "done"
    wOps,        \* the clipboard accesses the worker has made, in order
    wProbe,      \* history: what the worker's look at the file references found
    wSent,       \* history: what the worker sent, and on which channel
    resultChan,  \* chan []string, capacity ChanCap
    errChan,     \* chan error, capacity ChanCap
    runRes,      \* AppleScript variant: what cmd.Run returned
    gfRet,       \* what GetFiles returned
    gfEvents,    \* history: "deadline", "deliver", "killed", "return" in order
    hPc,         \* the tool handler's position
    hKind,       \* "none", "files", "clipboard", "urls"
    hArgs,       \* the handler's input: the paths or URLs of the request
    hItems,      \* the validated paths, or the URLs
    hIdx,        \* the loop index, from 1
    hUrls,       \* the result lines collected so far
    hRet,        \* what the handler returned
    hDefers,     \* the temp files whose removal is deferred
    tempLive,    \* the temp files that exist
    hTrace,      \* history: the handler's calls, in order
    call         \* the last direct call of an exported function: op, args, ret

clipVars == <<gfPc, gfCaller, ctx, wPc, wOps, wProbe, wSent, resultChan, errChan, runRes, gfRet, gfEvents>>
svcVars == <<proc, svc, svcCalls>>
hVars == <<hPc, hKind, hArgs, hItems, hIdx, hUrls, hRet, hDefers, tempLive, hTrace>>
vars == <<platform, proc, svc, svcCalls, gfPc, gfCaller, ctx, wPc, wOps, wProbe, wSent, resultChan,
          errChan, runRes, gfRet, gfEvents, hPc, hKind, hArgs, hItems, hIdx, hUrls, hRet,
          hDefers, tempLive, hTrace, call>>

NoCall == [op |-> "none", args |-> <<>>, ret |-> <<>>]
NoRet == [paths |-> NilSlice, err |-> NoErr]
NotSent == [chan |-> "none", paths |-> NilSlice, err |-> NoErr]

\* nothing looked at yet, or no file-reference format on the clipboard
NoProbe == [present |-> FALSE, derived |-> <<>>, failed |-> FALSE]
ClipInit ==
    /\ gfPc = "idle" /\ gfCaller = "none" /\ ctx = "none" /\ wPc = "none"
    /\ wOps = <<>> /\ wProbe = NoProbe /\ wSent = NotSent /\ resultChan = <<>> /\ errChan = <<>>
    /\ runRes = [err |-> NoErr, pieces |-> <<>>]
    /\ gfRet = NoRet /\ gfEvents = <<>>

\* ------------------------------------------------------ GetFiles: caller
\* context.WithTimeout, the channels, go func() (or cmd.Run for the
\* AppleScript variant).  A timeout that is not positive gives a context
\* that is done from the start.
GetFilesBegin(timeout, caller) ==
    /\ gfPc = "idle"
    /\ gfCaller' = caller
    /\ ctx' = IF timeout <= 0 THEN "DeadlineExceeded" ELSE "active"
    /\ gfEvents' = IF timeout <= 0 THEN <<"deadline">> ELSE <<>>
    /\ resultChan' = <<>> /\ errChan' = <<>>
    /\ IF platform \in GoroutinePlatforms
       THEN gfPc' = "select" /\ wPc' = "file"
       ELSE gfPc' = "run" /\ wPc' = "none"
    /\ UNCHANGED <<wOps, wProbe, wSent, runRes, gfRet>>

\* a caller of the package's GetFiles(timeoutSeconds)
GetFilesCall ==
    /\ hPc = "idle"
    /\ \E t \in TimeoutValues : GetFilesBegin(t, "api")
    /\ UNCHANGED <<platform, call, svcVars, hVars>>

\* the timer of the context fires
DeadlineFires ==
    /\ ctx = "active"
    /\ ctx' = "DeadlineExceeded"
    /\ gfEvents' = Append(gfEvents, "deadline")
    /\ UNCHANGED <<platform, call, svcVars, hVars, gfPc, gfCaller, wPc, wOps, wProbe, wSent,
                   resultChan, errChan, runRes, gfRet>>

\* return from GetFiles; the deferred cancel() ends a context still active
GetFilesReturn(ret) ==
    /\ gfPc' = "returned"
    /\ gfRet' = ret
    /\ ctx' = IF ctx = "active" THEN "Canceled" ELSE ctx
    /\ gfEvents' = Append(gfEvents, "return")

\* mutant: the timeout branch taken although the context is not done
SelectDoneEager ==
    /\ gfPc = "select"
    /\ GetFilesReturn([paths |-> NilSlice, err |-> ErrTimeoutGet])
    /\ UNCHANGED <<platform, call, svcVars, hVars, gfCaller, wPc, wOps, wProbe, wSent, resultChan, errChan, runRes>>

\* select: case <-ctx.Done()
SelectDone ==
    /\ gfPc = "select" /\ ctx = "DeadlineExceeded"
    /\ GetFilesReturn([paths |-> NilSlice, err |-> ErrTimeoutGet])
    /\ UNCHANGED <<platform, call, svcVars, hVars, gfCaller, wPc, wOps, wProbe, wSent, resultChan, errChan, runRes>>

\* mutant: the received list is dropped (return nil, nil)
SelectResultDropped ==
    /\ gfPc = "select" /\ resultChan # <<>>
    /\ GetFilesReturn([paths |-> NilSlice, err |-> NoErr])
    /\ resultChan' = Tail(resultChan)
    /\ UNCHANGED <<platform, call, svcVars, hVars, gfCaller, wPc, wOps, wProbe, wSent, errChan, runRes>>

\* select: case result := <-resultChan
SelectResult ==
    /\ gfPc = "select" /\ resultChan # <<>>
    /\ GetFilesReturn([paths |-> Head(resultChan), err |-> NoErr])
    /\ resultChan' = Tail(resultChan)
    /\ UNCHANGED <<platform, call, svcVars, hVars, gfCaller, wPc, wOps, wProbe, wSent, errChan, runRes>>

\* select: case err := <-errChan
SelectErr ==
    /\ gfPc = "select" /\ errChan # <<>>
    /\ GetFilesReturn([paths |-> NilSlice, err |-> Head(errChan)])
    /\ errChan' = Tail(errChan)
    /\ UNCHANGED <<platform, call, svcVars, hVars, gfCaller, wPc, wOps, wProbe, wSent, resultChan, runRes>>

\* mutant: channels without a buffer, a send needs GetFiles at its select
WorkerStepUnbuffered(r, probe) ==
    /\ wOps' = wOps \o r.ops
    /\ wProbe' = probe
    /\ IF r.send
       THEN /\ gfPc = "select"
            /\ wPc' = "done"
            /\ gfEvents' = Append(gfEvents, "deliver")
            /\ wSent' = [chan |-> r.chan, paths |-> r.paths, err |-> r.err]
            /\ IF r.chan = "result"
               THEN resultChan' = Append(resultChan, r.paths) /\ errChan' = errChan
               ELSE errChan' = Append(errChan, r.err) /\ resultChan' = resultChan
       ELSE /\ wPc' = "text"
            /\ UNCHANGED <<gfEvents, wSent, resultChan, errChan>>
    /\ UNCHANGED <<platform, call, svcVars, hVars, gfPc, gfCaller, ctx, runRes, gfRet>>

\* ------------------------------------------------------ GetFiles: worker
\* One tier of the worker goroutine: it either sends its outcome on one of
\* the channels and ends, or goes on to the text tier.  A send waits for
\* room in the channel.
WorkerStep(r, probe) ==
    /\ wOps' = wOps \o r.ops
    /\ wProbe' = probe
    /\ IF r.send
       THEN /\ wPc' = "done"
            /\ gfEvents' = Append(gfEvents, "deliver")
            /\ wSent' = [chan |-> r.chan, paths |-> r.paths, err |-> r.err]
            /\ IF r.chan = "result"
               THEN /\ Len(resultChan) < ChanCap
                    /\ resultChan' = Append(resultChan, r.paths)
                    /\ errChan' = errChan
               ELSE /\ Len(errChan) < ChanCap
                    /\ errChan' = Append(errChan, r.err)
                    /\ resultChan' = resultChan
       ELSE /\ wPc' = "text"
            /\ UNCHANGED <<gfEvents, wSent, resultChan, errChan>>
    /\ UNCHANGED <<platform, call, svcVars, hVars, gfPc, gfCaller, ctx, runRes, gfRet>>

\* The probe of a tier: present says the file-reference format is on the
\* clipboard with content, derived is the list of paths made from it, failed
\* that every clipboard tool run so far exited with an error.
LinuxWorkerUri ==
    /\ platform = "linux" /\ wPc = "file"
    /\ \E ok \in [{"xclip-uri", "wl-paste-uri"} -> BOOLEAN],
          out \in SeqsUpTo(LinuxUriLines, MaxLines) :
          WorkerStep(LinuxUriTier(ok, [t \in DOMAIN ok |-> out]),
                     IF (ok["xclip-uri"] \/ ok["wl-paste-uri"]) /\ out # <<>> /\ ~AllBlank(out)
                     THEN [present |-> TRUE, derived |-> LinuxUriPaths(out), failed |-> FALSE]
                     ELSE [NoProbe EXCEPT !.failed = ~ok["xclip-uri"] /\ ~ok["wl-paste-uri"]])

LinuxWorkerText ==
    /\ platform = "linux" /\ wPc = "text"
    /\ \E ok \in [{"xclip-text", "xsel-text", "wl-paste-text"} -> BOOLEAN],
          out \in SeqsUpTo(LinuxTextLines, MaxLines), homeOk \in BOOLEAN :
          WorkerStep(LinuxTextTier(ok, [t \in DOMAIN ok |-> out], homeOk),
                     [wProbe EXCEPT !.failed = @ /\ \A t \in DOMAIN ok : ~ok[t]])

WindowsWorkerFile ==
    /\ platform = "windows" /\ wPc = "file"
    /\ \E openOk \in BOOLEAN, hdrop \in BOOLEAN, dataOk \in BOOLEAN, lockOk \in BOOLEAN,
          files \in SeqsUpTo(WindowsFiles, MaxLines) :
          WorkerStep(WindowsFileTier([openOk |-> openOk, hdrop |-> hdrop, dataOk |-> dataOk,
                                      lockOk |-> lockOk, files |-> files]),
                     IF openOk /\ hdrop /\ dataOk /\ lockOk
                     THEN [present |-> TRUE, derived |-> files, failed |-> FALSE]
                     ELSE NoProbe)

WindowsWorkerText ==
    /\ platform = "windows" /\ wPc = "text"
    /\ \E text \in BOOLEAN, dataOk \in BOOLEAN, lockOk \in BOOLEAN,
          lines \in SeqsUpTo(WindowsTextLines, MaxLines) :
          WorkerStep(WindowsTextTier([text |-> text, dataOk |-> dataOk, lockOk |-> lockOk,
                                      lines |-> lines]), wProbe)

CocoaWorkerFile ==
    /\ platform = "darwin-cocoa" /\ wPc = "file"
    /\ \E files \in SeqsUpTo(CocoaFiles, MaxLines) :
          WorkerStep(CocoaFileTier(files),
                     IF files # <<>> THEN [present |-> TRUE, derived |-> files, failed |-> FALSE]
                     ELSE NoProbe)

CocoaWorkerText ==
    /\ platform = "darwin-cocoa" /\ wPc = "text"
    /\ \E text \in BOOLEAN, lines \in SeqsUpTo(CocoaTextLines, MaxLines),
          spot \in SUBSET {<<"s", ".", "txt">>} :
          WorkerStep(CocoaTextTier([text |-> text, lines |-> lines, spot |-> spot]), wProbe)

\* ------------------------------------------- GetFiles: AppleScript variant
\* osascript ends by itself and cmd.Run returns its result
ScriptFinishes ==
    /\ platform = "darwin-applescript" /\ gfPc = "run" /\ ctx = "active"
    /\ \E failed \in BOOLEAN, pieces \in SeqsUpTo(ScriptPieces, MaxLines) :
          runRes' = [err |-> IF failed THEN ErrExit ELSE NoErr,
                     pieces |-> IF failed THEN <<>> ELSE pieces]
    /\ gfPc' = "check"
    /\ gfEvents' = Append(gfEvents, "deliver")
    /\ UNCHANGED <<platform, call, svcVars, hVars, gfCaller, ctx, wPc, wOps, wProbe, wSent, resultChan,
                   errChan, gfRet>>

\* exec.CommandContext: the context is done, osascript is killed (or never
\* started) and cmd.Run returns an error
ScriptKilled ==
    /\ platform = "darwin-applescript" /\ gfPc = "run" /\ ctx = "DeadlineExceeded"
    /\ runRes' = [err |-> ErrKilled, pieces |-> <<>>]
    /\ gfPc' = "check"
    /\ gfEvents' = Append(gfEvents, "killed")
    /\ UNCHANGED <<platform, call, svcVars, hVars, gfCaller, ctx, wPc, wOps, wProbe, wSent, resultChan,
                   errChan, gfRet>>

\* the checks after cmd.Run
ScriptCheck ==
    /\ platform = "darwin-applescript" /\ gfPc = "check"
    /\ GetFilesReturn(ScriptOutcome(ctx, runRes.err, runRes.pieces))
    /\ UNCHANGED <<platform, call, svcVars, hVars, gfCaller, wPc, wOps, wProbe, wSent, resultChan, errChan, runRes>>

\* ------------------------------------------------------- storage.Service
\* NewConfigFromEnv: an unset FSM_STORAGE_TYPE reads as "empty"
NewConfigFromEnv(env) ==
    [StorageType |-> getEnv(env.StorageType, StorageTypeEmpty),
     S3 |-> [env.S3 EXCEPT !.URLExpiration = getEnvInt64(@, DefaultExpiration)],
     OSS |-> [env.OSS EXCEPT !.URLExpiration = getEnvInt64(@, DefaultExpiration)],
     COS |-> [env.COS EXCEPT !.URLExpiration = getEnvInt64(@, DefaultExpiration)],
     Qiniu |-> [env.Qiniu EXCEPT !.URLExpiration = getEnvInt64(@, DefaultExpiration)],
     GitHub |-> env.GitHub]

Key == <<"k">>
DefaultEnv ==
    [StorageType |-> <<>>, FileFormat |-> <<>>,
     S3 |-> [URLExpiration |-> <<>>, sdkOk |-> TRUE],
     OSS |-> [Domain |-> <<>>, URLExpiration |-> <<>>, sdkOk |-> TRUE],
     COS |-> [Domain |-> <<>>, URLExpiration |-> <<>>, sdkOk |-> TRUE],
     Qiniu |-> [AccessKey |-> <<>>, SecretKey |-> <<>>, BucketName |-> <<>>,
                Domain |-> <<>>, URLExpiration |-> <<>>],
     GitHub |-> [Token |-> <<>>, Owner |-> <<>>, Repo |-> <<>>, CustomDomain |-> <<>>]]

TypeSpellings ==
    { <<>>, StorageTypeEmpty, <<"E", "m", "p", "t", "y">>,
      StorageTypeS3, <<"S", "3">>, <<"s", "3", " ">>,
      StorageTypeOSS, <<"O", "s", "S">>, StorageTypeCOS, <<"C", "O", "S">>,
      StorageTypeQiniu, <<"Q", "i", "n", "i", "u">>, <<"q", "i", "n", "i">>,
      StorageTypeGitHub, <<"G", "i", "t", "H", "u", "b">>,
      <<"u", "n", "k", "n", "o", "w", "n", "-", "p", "r", "o", "v", "i", "d", "e", "r">> }

DomainChars == {"h", "t", "p", "/"}
Domains == SeqsUpTo(DomainChars, MaxDomainLen)
FieldValues == {<<>>, Key}
\* FSM_*_URL_EXPIRATION as written in the environment
ExpirationStrings ==
    { <<>>, <<"0">>, <<"-", "1">>, <<"6", "0">>, <<"+", "6", "0">>, <<" ", "6", "0">>,
      <<"6", "0", "s">>, <<"7", " ", "d", "a", "y", "s">>, <<"-">>, <<" ">>,
      <<"9", "2", "2", "3", "3", "7", "2", "0", "3", "6">>,
      <<"9", "2", "2", "3", "3", "7", "2", "0", "3", "7">>,
      <<"1", "8", "4", "4", "6", "7", "4", "4", "0", "7", "4">>,
      MaxInt64Digits,
      [MaxInt64Digits EXCEPT ![Len(MaxInt64Digits)] = "8"],
      <<"-">> \o [MaxInt64Digits EXCEPT ![Len(MaxInt64Digits)] = "8"] }

\* every spelling of the type, with the SDK working or not
TypeEnvs ==
    { [DefaultEnv EXCEPT !.StorageType = t, !.S3.sdkOk = ok, !.OSS.sdkOk = ok,
                         !.COS.sdkOk = ok]
      : t \in TypeSpellings, ok \in BOOLEAN }
\* Qiniu: every combination of empty and set fields, and every domain
QiniuEnvs ==
    { [DefaultEnv EXCEPT !.StorageType = t,
                         !.Qiniu = [AccessKey |-> a, SecretKey |-> s, BucketName |-> b,
                                    Domain |-> d, URLExpiration |-> <<>>]]
      : t \in {StorageTypeQiniu, <<"Q", "i", "n", "i", "u">>},
        a \in FieldValues, s \in FieldValues, b \in FieldValues,
        d \in {<<>>, <<"h", "t", "t", "p", "/">>} }
\* Qiniu with its keys and bucket set, and every domain
QiniuDomainEnvs ==
    { [DefaultEnv EXCEPT !.StorageType = StorageTypeQiniu,
                         !.Qiniu = [AccessKey |-> Key, SecretKey |-> Key, BucketName |-> Key,
                                    Domain |-> d, URLExpiration |-> <<>>]]
      : d \in Domains }
\* a backend that signs its URLs, with every written expiration
ExpirationEnvs ==
    { [DefaultEnv EXCEPT !.StorageType = t,
                         !.S3.URLExpiration = x, !.OSS.URLExpiration = x,
                         !.COS.URLExpiration = x,
                         !.Qiniu = [AccessKey |-> Key, SecretKey |-> Key, BucketName |-> Key,
                                    Domain |-> <<"h", "t", "t", "p", "/">>,
                                    URLExpiration |-> x]]
      : t \in {StorageTypeS3, StorageTypeOSS, StorageTypeCOS, StorageTypeQiniu},
        x \in ExpirationStrings }
GitHubEnvs ==
    { [DefaultEnv EXCEPT !.StorageType = t,
                         !.GitHub = [Token |-> a, Owner |-> o, Repo |-> r,
                                     CustomDomain |-> <<>>]]
      : t \in {StorageTypeGitHub, <<"G", "i", "t", "H", "u", "b">>},
        a \in FieldValues, o \in FieldValues, r \in FieldValues }
\* FSM_FILE_FORMAT unset, or a template
FileFormats == { <<>>, Placeholder("filename"), Placeholder("uuid") \o Placeholder("ext") }
FormatEnvs ==
    { [DefaultEnv EXCEPT !.StorageType = t, !.FileFormat = f]
      : t \in {StorageTypeS3, StorageTypeEmpty}, f \in FileFormats }
RouterEnvs == TypeEnvs \cup QiniuEnvs \cup GitHubEnvs \cup FormatEnvs

Unconstructed ==
    [constructed |-> FALSE, envType |-> <<>>, fileFormat |-> <<>>,
     envExpiration |-> <<>>,
     Config |-> NewConfigFromEnv(DefaultEnv),
     Storage |-> EmptyNew(<<>>), ctor |-> "none"]

\* NewService / NewServiceWithConfig: the configuration is read and the
\* backend selected, once.  A panic in a constructor ends the process.
NewServiceFrom(env) ==
    LET config == NewConfigFromEnv(env)
        r == NewStorage(config)
    IN  [panic |-> r.panic,
         service |-> [constructed |-> ~r.panic, envType |-> env.StorageType,
                      fileFormat |-> env.FileFormat,
                      envExpiration |-> IF r.ctor = "s3" THEN env.S3.URLExpiration
                                        ELSE IF r.ctor = "oss" THEN env.OSS.URLExpiration
                                        ELSE IF r.ctor = "cos" THEN env.COS.URLExpiration
                                        ELSE IF r.ctor = "qiniu" THEN env.Qiniu.URLExpiration
                                        ELSE <<>>,
                      Config |-> config,
                      Storage |-> r.backend, ctor |-> r.ctor]]

NewServiceIn(envs) ==
    /\ proc = "running" /\ ~svc.constructed
    /\ \E env \in envs :
          /\ svc' = NewServiceFrom(env).service
          /\ proc' = IF NewServiceFrom(env).panic THEN "crashed" ELSE "running"
    /\ UNCHANGED <<platform, call, svcCalls, clipVars, hVars>>

NewService == NewServiceIn(RouterEnvs)
\* NewService in a process configured for Qiniu
NewServiceQiniu == NewServiceIn(QiniuDomainEnvs)
\* NewService in a process configured for a backend that signs its URLs
NewServiceSigning == NewServiceIn(ExpirationEnvs)

\* Service.UploadFile(path) and Service.Upload(body, filename): forwarded to
\* the active backend, once
\* filepath.Base: the last element of the path; trailing separators are
\* dropped first, on Windows the volume too, and both separators count there
IsPathSeparator(t, plat) == t = Sep \/ (plat = "windows" /\ t = BSep)
RECURSIVE StripTrailingSeparators(_, _)
StripTrailingSeparators(p, plat) ==
    IF p # <<>> /\ IsPathSeparator(p[Len(p)], plat)
    THEN StripTrailingSeparators(SubSeq(p, 1, Len(p) - 1), plat)
    ELSE p
RECURSIVE LastElement(_, _)
LastElement(p, plat) ==
    IF p = <<>> \/ IsPathSeparator(p[Len(p)], plat) THEN <<>>
    ELSE Append(LastElement(SubSeq(p, 1, Len(p) - 1), plat), p[Len(p)])
Base(path, plat) ==
    IF path = <<>> THEN <<".">>
    ELSE LET p == StripTrailingSeparators(path, plat)
             q == IF plat = "windows" /\ Len(p) >= 2 /\ p[2] = ":"
                  THEN SubSeq(p, 3, Len(p)) ELSE p
         IN  IF q = <<>> THEN <<IF plat = "windows" THEN BSep ELSE Sep>>
             ELSE LastElement(q, plat)

\* "{timestamp}-{filename}{ext}"
DefaultFormat ==
    Placeholder("timestamp") \o <<"-">> \o Placeholder("filename") \o Placeholder("ext")

\* mutant: FSM_FILE_FORMAT is not read, the default template always used
KeyFormatIgnoresEnv(s) == DefaultFormat
\* the template of a call: getEnv("FSM_FILE_FORMAT", ""), the default
\* when that is empty
KeyFormat(s) ==
    LET format == getEnv(s.fileFormat, <<>>)
    IN  IF Len(format) = 0 THEN DefaultFormat ELSE format

\* Service.UploadFile(path) and Service.Upload(body, filename).  sent: the
\* calls made on the backend, ret: what the caller gets.
ServiceUploadFile(s, path, now, net) ==
    LET filename == Base(path, platform)
        formattedFilename == FormatObjectKey(filename, KeyFormat(s), now)
    IN  [sent |-> <<[op |-> "UploadFile", path |-> path, filename |-> formattedFilename]>>,
         ret |-> StorageUploadFile(s.Storage, path, formattedFilename, net)]
ServiceUpload(s, filename, now, net) ==
    LET formattedFilename == FormatObjectKey(filename, KeyFormat(s), now)
    IN  [sent |-> <<[op |-> "Upload", path |-> <<>>, filename |-> formattedFilename]>>,
         ret |-> StorageUpload(s.Storage, formattedFilename, net)]

\* the paths and names of the direct calls
ServicePaths == { <<Sep, "home", Sep, "b", ".", "txt">> }
ServiceNames == { <<"a", ".", "txt">> }

\* mutant: a failed upload swaps the backend for the Empty one
UploadFileCallFallsBack ==
    /\ proc = "running" /\ svc.constructed /\ Len(svcCalls) < MaxCalls
    /\ \E path \in ServicePaths, now \in Nows, net \in NetOutcomes :
          LET r == ServiceUploadFile(svc, path, now, net)
          IN  /\ svcCalls' = Append(svcCalls, [op |-> "UploadFile", arg |-> path, now |-> now,
                                               sent |-> r.sent, ret |-> r.ret])
              /\ svc' = IF r.ret.err # NoErr
                        THEN [svc EXCEPT !.Storage = EmptyNew(r.ret.err)] ELSE svc
    /\ UNCHANGED <<platform, call, proc, clipVars, hVars>>

UploadFileCall ==
    /\ proc = "running" /\ svc.constructed /\ Len(svcCalls) < MaxCalls
    /\ \E path \in ServicePaths, now \in Nows, net \in NetOutcomes :
          LET r == ServiceUploadFile(svc, path, now, net)
          IN  svcCalls' = Append(svcCalls, [op |-> "UploadFile", arg |-> path, now |-> now,
                                            sent |-> r.sent, ret |-> r.ret])
    /\ UNCHANGED <<platform, call, proc, svc, clipVars, hVars>>

UploadCall ==
    /\ proc = "running" /\ svc.constructed /\ Len(svcCalls) < MaxCalls
    /\ \E filename \in ServiceNames, now \in Nows, net \in NetOutcomes :
          LET r == ServiceUpload(svc, filename, now, net)
          IN  svcCalls' = Append(svcCalls, [op |-> "Upload", arg |-> filename, now |-> now,
                                            sent |-> r.sent, ret |-> r.ret])
    /\ UNCHANGED <<platform, call, proc, svc, clipVars, hVars>>

\* ---------------------------------------------------------- tool handlers
StatusOK == 200
\* what http.Get returns: a transport error, or a response with its status
HttpResponses == { [failed |-> TRUE, status |-> 0], [failed |-> FALSE, status |-> 200],
                   [failed |-> FALSE, status |-> 204], [failed |-> FALSE, status |-> 404] }
PathCands == { <<>>, <<Sep, "a", ".", "txt">>, <<"r", ".", "txt">>, <<Sep, "tmp", Sep, "does-not-exist">>,
               <<Sep, "d">>, <<"C", ":", BSep, "a", ".", "txt">> }
UrlCands == {"u1", "u2"}
TempPath(i) == <<Sep, "tmp", Sep, "download-", ToString(i)>>

NilResult == [isNil |-> TRUE, msg |-> "", count |-> 0, lines |-> <<>>]
TextResult(msg, count, lines) == [isNil |-> FALSE, msg |-> msg, count |-> count, lines |-> lines]

HandlerInit ==
    /\ hPc = "idle" /\ hKind = "none" /\ hArgs = <<>> /\ hItems = <<>> /\ hIdx = 1
    /\ hUrls = <<>> /\ hRet = [result |-> NilResult, err |-> NoErr]
    /\ hDefers = <<>> /\ tempLive = {} /\ hTrace = <<>>

\* the deferred os.Remove calls, last deferred first
RECURSIVE RemoveEvents(_)
RemoveEvents(defers) ==
    IF defers = <<>> THEN <<>>
    ELSE <<[ev |-> "remove", i |-> defers[Len(defers)]]>>
         \o RemoveEvents(SubSeq(defers, 1, Len(defers) - 1))

\* mutant: a return that does not run the deferred removals
HandlerReturnNoDefers(result, err, events) ==
    /\ hPc' = "done"
    /\ hRet' = [result |-> result, err |-> err]
    /\ tempLive' = tempLive
    /\ hDefers' = <<>>
    /\ hTrace' = hTrace \o events \o <<[ev |-> "return", i |-> 0]>>

\* return from a handler: the deferred calls run, then the caller has the result
HandlerReturn(result, err, events) ==
    /\ hPc' = "done"
    /\ hRet' = [result |-> result, err |-> err]
    /\ tempLive' = tempLive \ {hDefers[k] : k \in 1..Len(hDefers)}
    /\ hDefers' = <<>>
    /\ hTrace' = hTrace \o events \o RemoveEvents(hDefers) \o <<[ev |-> "return", i |-> 0]>>

CanServe == proc = "running" /\ svc.constructed /\ hPc = "idle" /\ gfPc = "idle"

\* handleUploadFiles up to its loop: the argument check and ValidatePaths
HandleUploadFiles ==
    /\ CanServe
    /\ hKind' = "files"
    /\ \E ok \in BOOLEAN, paths \in SeqsUpTo(PathCands, MaxItems) :
          /\ hArgs' = IF ok THEN paths ELSE <<>>
          /\ IF ~ok
             THEN /\ HandlerReturn(NilResult, <<"path must be a string">>, <<>>)
                  /\ UNCHANGED <<hItems, hIdx, hUrls>>
             ELSE LET v == ValidatePaths(paths, platform)
                  IN  IF v.err # NoErr
                      THEN /\ HandlerReturn(NilResult, v.err,
                                            <<[ev |-> "args", i |-> Len(paths)],
                                              [ev |-> "validate", i |-> 0]>>)
                           /\ UNCHANGED <<hItems, hIdx, hUrls>>
                      ELSE /\ hItems' = v.paths.elems
                           /\ hIdx' = 1 /\ hUrls' = <<>>
                           /\ hPc' = "upload"
                           /\ hTrace' = hTrace \o <<[ev |-> "args", i |-> Len(paths)],
                                                    [ev |-> "validate", i |-> 0]>>
                           /\ UNCHANGED <<hRet, hDefers, tempLive>>
    /\ UNCHANGED <<platform, call, svcVars, clipVars>>

\* handleUploadClipboardFiles: the call of clip.GetFiles(5)
HandleUploadClipboardFiles ==
    /\ CanServe
    /\ hKind' = "clipboard" /\ hPc' = "clip"
    /\ GetFilesBegin(ClipTimeoutSeconds, "handler")
    /\ UNCHANGED <<platform, call, svcVars, hArgs, hItems, hIdx, hUrls, hRet, hDefers, tempLive,
                   hTrace>>

\* mutant: an error of GetFiles is taken for an empty clipboard
ClipboardFilesGotErrorIgnored ==
    /\ hPc = "clip" /\ gfPc = "returned"
    /\ hArgs' = gfRet.paths.elems
    /\ IF NoFiles(gfRet.paths)
       THEN /\ HandlerReturn(TextResult("No files found in clipboard.", 0, <<>>), NoErr, <<>>)
            /\ UNCHANGED <<hItems, hIdx, hUrls>>
       ELSE LET v == ValidatePaths(gfRet.paths.elems, platform)
            IN  IF v.err # NoErr
                THEN /\ HandlerReturn(NilResult, v.err, <<[ev |-> "validate", i |-> 0]>>)
                     /\ UNCHANGED <<hItems, hIdx, hUrls>>
                ELSE /\ hItems' = v.paths.elems
                     /\ hIdx' = 1 /\ hUrls' = <<>>
                     /\ hPc' = "upload"
                     /\ hTrace' = Append(hTrace, [ev |-> "validate", i |-> 0])
                     /\ UNCHANGED <<hRet, hDefers, tempLive>>
    /\ UNCHANGED <<platform, call, svcVars, clipVars, hKind>>

\* handleUploadClipboardFiles once GetFiles has returned: the error, the
\* empty list, or ValidatePaths
ClipboardFilesGot ==
    /\ hPc = "clip" /\ gfPc = "returned"
    /\ hArgs' = gfRet.paths.elems
    /\ IF gfRet.err # NoErr
       THEN /\ HandlerReturn(NilResult, <<"failed to get files from clipboard: ">> \o gfRet.err,
                             <<>>)
            /\ UNCHANGED <<hItems, hIdx, hUrls>>
       ELSE IF NoFiles(gfRet.paths)
       THEN /\ HandlerReturn(TextResult("No files found in clipboard.", 0, <<>>), NoErr, <<>>)
            /\ UNCHANGED <<hItems, hIdx, hUrls>>
       ELSE LET v == ValidatePaths(gfRet.paths.elems, platform)
            IN  IF v.err # NoErr
                THEN /\ HandlerReturn(NilResult, v.err, <<[ev |-> "validate", i |-> 0]>>)
                     /\ UNCHANGED <<hItems, hIdx, hUrls>>
                ELSE /\ hItems' = v.paths.elems
                     /\ hIdx' = 1 /\ hUrls' = <<>>
                     /\ hPc' = "upload"
                     /\ hTrace' = Append(hTrace, [ev |-> "validate", i |-> 0])
                     /\ UNCHANGED <<hRet, hDefers, tempLive>>
    /\ UNCHANGED <<platform, call, svcVars, clipVars, hKind>>

\* mutant: handleUploadUrlFiles without the check of the empty list
HandleUploadUrlFilesNoEmptyCheck ==
    /\ CanServe
    /\ hKind' = "urls"
    /\ \E ok \in BOOLEAN, urls \in SeqsUpTo(UrlCands, MaxItems) :
          /\ hArgs' = IF ok THEN urls ELSE <<>>
          /\ IF ~ok
             THEN /\ HandlerReturn(NilResult, <<"urls must be an array of strings">>, <<>>)
                  /\ UNCHANGED <<hItems, hIdx, hUrls>>
             ELSE /\ hItems' = urls
                  /\ hIdx' = 1 /\ hUrls' = <<>>
                  /\ hPc' = "create"
                  /\ hTrace' = Append(hTrace, [ev |-> "args", i |-> Len(urls)])
                  /\ UNCHANGED <<hRet, hDefers, tempLive>>
    /\ UNCHANGED <<platform, call, svcVars, clipVars>>

\* handleUploadUrlFiles up to its loop
HandleUploadUrlFiles ==
    /\ CanServe
    /\ hKind' = "urls"
    /\ \E ok \in BOOLEAN, urls \in SeqsUpTo(UrlCands, MaxItems) :
          /\ hArgs' = IF ok THEN urls ELSE <<>>
          /\ IF ~ok
             THEN /\ HandlerReturn(NilResult, <<"urls must be an array of strings">>, <<>>)
                  /\ UNCHANGED <<hItems, hIdx, hUrls>>
             ELSE IF urls = <<>>
             THEN /\ HandlerReturn(NilResult, <<"urls cannot be empty">>,
                                   <<[ev |-> "args", i |-> 0]>>)
                  /\ UNCHANGED <<hItems, hIdx, hUrls>>
             ELSE /\ hItems' = urls
                  /\ hIdx' = 1 /\ hUrls' = <<>>
                  /\ hPc' = "create"
                  /\ hTrace' = Append(hTrace, [ev |-> "args", i |-> Len(urls)])
                  /\ UNCHANGED <<hRet, hDefers, tempLive>>
    /\ UNCHANGED <<platform, call, svcVars, clipVars>>

\* os.CreateTemp and the deferred os.Remove
CreateTemp ==
    /\ hPc = "create" /\ hIdx <= Len(hItems)
    /\ \E ok \in BOOLEAN :
          IF ~ok
          THEN /\ HandlerReturn(NilResult, <<"failed to create temp file: ", "io error">>, <<>>)
               /\ UNCHANGED <<hItems, hIdx, hUrls>>
          ELSE /\ tempLive' = tempLive \cup {hIdx}
               /\ hDefers' = Append(hDefers, hIdx)
               /\ hTrace' = Append(hTrace, [ev |-> "create", i |-> hIdx])
               /\ hPc' = "get"
               /\ UNCHANGED <<hItems, hIdx, hUrls, hRet>>
    /\ UNCHANGED <<platform, call, svcVars, clipVars, hKind, hArgs>>

\* mutant: every 2xx status is taken as a download
HttpGetAny2xx ==
    /\ hPc = "get"
    /\ \E resp \in HttpResponses :
          IF resp.failed \/ resp.status < 200 \/ resp.status > 299
          THEN /\ HandlerReturn(NilResult,
                                <<"failed to download file from ", hItems[hIdx], ": ", "transport">>,
                                <<[ev |-> "resp", i |-> hIdx, resp |-> resp],
                                  [ev |-> "get", i |-> hIdx]>>)
               /\ UNCHANGED <<hItems, hIdx, hUrls>>
          ELSE /\ hTrace' = hTrace \o <<[ev |-> "resp", i |-> hIdx, resp |-> resp],
                                        [ev |-> "get", i |-> hIdx]>>
               /\ hPc' = "copy"
               /\ UNCHANGED <<hItems, hIdx, hUrls, hRet, hDefers, tempLive>>
    /\ UNCHANGED <<platform, call, svcVars, clipVars, hKind, hArgs>>

\* http.Get and the status check
HttpGet ==
    /\ hPc = "get"
    /\ \E resp \in HttpResponses :
          IF resp.failed
          THEN /\ HandlerReturn(NilResult,
                                <<"failed to download file from ", hItems[hIdx], ": ", "transport">>,
                                <<[ev |-> "resp", i |-> hIdx, resp |-> resp],
                                  [ev |-> "get", i |-> hIdx]>>)
               /\ UNCHANGED <<hItems, hIdx, hUrls>>
          ELSE IF resp.status # StatusOK
          THEN /\ HandlerReturn(NilResult,
                                <<"failed to download file from ", hItems[hIdx], ": status code">>,
                                <<[ev |-> "resp", i |-> hIdx, resp |-> resp],
                                  [ev |-> "get", i |-> hIdx]>>)
               /\ UNCHANGED <<hItems, hIdx, hUrls>>
          ELSE /\ hTrace' = hTrace \o <<[ev |-> "resp", i |-> hIdx, resp |-> resp],
                                        [ev |-> "get", i |-> hIdx]>>
               /\ hPc' = "copy"
               /\ UNCHANGED <<hItems, hIdx, hUrls, hRet, hDefers, tempLive>>
    /\ UNCHANGED <<platform, call, svcVars, clipVars, hKind, hArgs>>

\* io.Copy into the temp file, and its Close
CopyBody ==
    /\ hPc = "copy"
    /\ \E ok \in BOOLEAN :
          IF ~ok
          THEN /\ HandlerReturn(NilResult, <<"failed to save downloaded file: ", "io error">>,
                                <<[ev |-> "copy", i |-> hIdx]>>)
               /\ UNCHANGED <<hItems, hIdx, hUrls>>
          ELSE /\ hTrace' = Append(hTrace, [ev |-> "copy", i |-> hIdx])
               /\ hPc' = "upload"
               /\ UNCHANGED <<hItems, hIdx, hUrls, hRet, hDefers, tempLive>>
    /\ UNCHANGED <<platform, call, svcVars, clipVars, hKind, hArgs>>

\* the path handed to Service.UploadFile for item i
UploadPath(i) == IF hKind = "urls" THEN TempPath(i) ELSE hItems[i]

\* the loop's s.storage.UploadFile(ctx, path) is called ...
UploadStart ==
    /\ hPc = "upload" /\ hIdx <= Len(hItems)
    /\ hPc' = "uploading"
    /\ hTrace' = Append(hTrace, [ev |-> "upload", i |-> hIdx])
    /\ UNCHANGED <<platform, call, svcVars, clipVars, hKind, hArgs, hItems, hIdx, hUrls, hRet,
                   hDefers, tempLive>>

\* mutant: a failed upload is noted and the loop goes on
UploadReturnContinues ==
    /\ hPc = "uploading"
    /\ \E now \in Nows, net \in NetOutcomes :
          LET ret == ServiceUploadFile(svc, UploadPath(hIdx), now, net).ret
          IN  /\ hUrls' = IF ret.err # NoErr THEN hUrls
                          ELSE Append(hUrls, [i |-> hIdx, url |-> ret.url])
              /\ hIdx' = hIdx + 1
              /\ hPc' = IF hKind = "urls" THEN "create" ELSE "upload"
              /\ hTrace' = Append(hTrace, [ev |-> IF ret.err # NoErr THEN "failed"
                                                  ELSE "uploaded", i |-> hIdx])
              /\ UNCHANGED <<hItems, hRet, hDefers, tempLive>>
    /\ UNCHANGED <<platform, call, svcVars, clipVars, hKind, hArgs>>

\* mutant: the temp file of an item is removed as soon as it is uploaded
UploadReturnRemovesTemp ==
    /\ hPc = "uploading"
    /\ \E now \in Nows, net \in NetOutcomes :
          LET ret == ServiceUploadFile(svc, UploadPath(hIdx), now, net).ret
          IN  IF ret.err # NoErr
              THEN /\ HandlerReturn(NilResult,
                                    IF hKind = "urls"
                                    THEN <<"failed to upload file from ", hItems[hIdx], ": ">>
                                         \o ret.err
                                    ELSE ret.err,
                                    <<[ev |-> "failed", i |-> hIdx]>>)
                   /\ UNCHANGED <<hItems, hIdx, hUrls>>
              ELSE /\ hUrls' = Append(hUrls, [i |-> hIdx, url |-> ret.url])
                   /\ hIdx' = hIdx + 1
                   /\ hPc' = IF hKind = "urls" THEN "create" ELSE "upload"
                   /\ hTrace' = Append(hTrace, [ev |-> "uploaded", i |-> hIdx])
                   /\ tempLive' = tempLive \ {hIdx}
                   /\ UNCHANGED <<hItems, hRet, hDefers>>
    /\ UNCHANGED <<platform, call, svcVars, clipVars, hKind, hArgs>>

\* mutant: a failed upload returns the URLs collected so far with the error
UploadReturnPartial ==
    /\ hPc = "uploading"
    /\ \E now \in Nows, net \in NetOutcomes :
          LET ret == ServiceUploadFile(svc, UploadPath(hIdx), now, net).ret
          IN  IF ret.err # NoErr
              THEN /\ HandlerReturn(TextResult("Upload %d files successfully:", Len(hUrls), hUrls),
                                    ret.err, <<[ev |-> "failed", i |-> hIdx]>>)
                   /\ UNCHANGED <<hItems, hIdx, hUrls>>
              ELSE /\ hUrls' = Append(hUrls, [i |-> hIdx, url |-> ret.url])
                   /\ hIdx' = hIdx + 1
                   /\ hPc' = IF hKind = "urls" THEN "create" ELSE "upload"
                   /\ hTrace' = Append(hTrace, [ev |-> "uploaded", i |-> hIdx])
                   /\ UNCHANGED <<hItems, hRet, hDefers, tempLive>>
    /\ UNCHANGED <<platform, call, svcVars, clipVars, hKind, hArgs>>

\* ... and returns: an error ends the handler, a URL is collected
UploadReturn ==
    /\ hPc = "uploading"
    /\ \E now \in Nows, net \in NetOutcomes :
          LET ret == ServiceUploadFile(svc, UploadPath(hIdx), now, net).ret
          IN  IF ret.err # NoErr
              THEN /\ HandlerReturn(NilResult,
                                    IF hKind = "urls"
                                    THEN <<"failed to upload file from ", hItems[hIdx], ": ">>
                                         \o ret.err
                                    ELSE ret.err,
                                    <<[ev |-> "failed", i |-> hIdx]>>)
                   /\ UNCHANGED <<hItems, hIdx, hUrls>>
              ELSE /\ hUrls' = Append(hUrls, [i |-> hIdx, url |-> ret.url])
                   /\ hIdx' = hIdx + 1
                   /\ hPc' = IF hKind = "urls" THEN "create" ELSE "upload"
                   /\ hTrace' = Append(hTrace, [ev |-> "uploaded", i |-> hIdx])
                   /\ UNCHANGED <<hItems, hRet, hDefers, tempLive>>
    /\ UNCHANGED <<platform, call, svcVars, clipVars, hKind, hArgs>>

\* the loop is over: the handler returns the collected URLs
HandlerFinish ==
    /\ hPc \in {"upload", "create"} /\ hIdx > Len(hItems)
    /\ HandlerReturn(TextResult(CASE hKind = "files" -> "Upload %d files successfully:"
                                  [] hKind = "clipboard" ->
                                        "Upload %d files from clipboard successfully:"
                                  [] OTHER -> "Downloaded and uploaded %d files successfully:",
                                Len(hItems), hUrls),
                     NoErr, <<>>)
    /\ UNCHANGED <<platform, call, svcVars, clipVars, hKind, hArgs, hItems, hIdx, hUrls>>

\* --------------------------------------------------------- specifications
\* The tool server: the service was constructed at start-up; requests and
\* GetFiles calls are served.
HandlerEnvs ==
    { DefaultEnv,
      [DefaultEnv EXCEPT !.StorageType = <<"S", "3">>],
      [DefaultEnv EXCEPT !.StorageType = StorageTypeQiniu, !.Qiniu.AccessKey = Key,
                         !.Qiniu.SecretKey = Key, !.Qiniu.BucketName = Key] }

Init ==
    /\ platform \in Platforms
    /\ proc = "running"
    /\ svc \in {NewServiceFrom(env).service : env \in HandlerEnvs}
    /\ svcCalls = <<>>
    /\ ClipInit
    /\ HandlerInit
    /\ call = NoCall

Next ==
    \/ GetFilesCall
    \/ DeadlineFires
    \/ SelectDone
    \/ SelectResult
    \/ SelectErr
    \/ LinuxWorkerUri
    \/ LinuxWorkerText
    \/ WindowsWorkerFile
    \/ WindowsWorkerText
    \/ CocoaWorkerFile
    \/ CocoaWorkerText
    \/ ScriptFinishes
    \/ ScriptKilled
    \/ ScriptCheck
    \/ HandleUploadFiles
    \/ HandleUploadClipboardFiles
    \/ ClipboardFilesGot
    \/ HandleUploadUrlFiles
    \/ CreateTemp
    \/ HttpGet
    \/ CopyBody
    \/ UploadStart
    \/ UploadReturn
    \/ HandlerFinish

Spec == Init /\ [][Next]_vars

\* Start-up: the service is constructed from the environment, then used.
InitRouter ==
    /\ platform = "linux"
    /\ proc = "running"
    /\ svc = Unconstructed
    /\ svcCalls = <<>>
    /\ ClipInit
    /\ HandlerInit
    /\ call = NoCall

NextRouter ==
    \/ NewService
    \/ UploadFileCall
    \/ UploadCall

SpecRouter == InitRouter /\ [][NextRouter]_vars

\* Start-up alone, over every configuration.
NextCtor ==
    \/ NewService
    \/ NewServiceQiniu
    \/ NewServiceSigning

SpecCtor == InitRouter /\ [][NextCtor]_vars

\* The exported functions called directly, on inputs of the caller's choice.
\* Service.ValidatePaths(paths)
ValidatePathsCall ==
    /\ \E paths \in SeqsUpTo(PathCands, MaxItems) :
          call' = [op |-> "ValidatePaths", args |-> paths,
                   ret |-> ValidatePaths(paths, platform)]
    /\ UNCHANGED <<platform, svcVars, clipVars, hVars>>

NextValidate == ValidatePathsCall

KeyNames == { <<"report", ".", "pdf">>, <<"noext">>, <<".", "bashrc">>,
              <<"a", ".", "tar", ".", "gz">>, <<"uuid", ".", "txt">>,
              <<"{", "uuid", "}", ".", "txt">>, <<"a", ".", "{", "ext", "}">> }
RECURSIVE Flatten(_)
Flatten(ss) == IF ss = <<>> THEN <<>> ELSE Head(ss) \o Flatten(Tail(ss))
TemplatePieces ==
    { Placeholder(w) : w \in {"filename", "ext", "timestamp", "uuid", "rand"} }
    \cup { <<"-">>, <<"{">>, <<"}">>, <<"{", "name", "}">> }
Templates == { Flatten(ps) : ps \in SeqsUpTo(TemplatePieces, MaxPieces) }

\* FormatObjectKey(filename, format)
FormatObjectKeyCall ==
    /\ call = NoCall
    /\ \E filename \in KeyNames, format \in Templates, now \in Nows :
          call' = [op |-> "FormatObjectKey",
                   args |-> [filename |-> filename, format |-> format, now |-> now],
                   ret |-> FormatObjectKey(filename, format, now)]
    /\ UNCHANGED <<platform, svcVars, clipVars, hVars>>

NextKey == FormatObjectKeyCall

SpecKey == InitRouter /\ [][NextKey]_vars

SpecValidate == Init /\ [][NextValidate]_vars

\* The text tier by itself, over every clipboard text and tool outcome.
LinuxTextTierCall ==
    /\ platform = "linux" /\ call = NoCall
    /\ \E ok \in [{"xclip-text", "xsel-text", "wl-paste-text"} -> BOOLEAN],
          out \in SeqsUpTo(LinuxTextLines, MaxLines), homeOk \in BOOLEAN :
          call' = [op |-> "LinuxTextTier",
                   args |-> [ok |-> ok, out |-> out, homeOk |-> homeOk],
                   ret |-> LinuxTextTier(ok, [t \in DOMAIN ok |-> out], homeOk)]
    /\ UNCHANGED <<platform, svcVars, clipVars, hVars>>

WindowsTextTierCall ==
    /\ platform = "windows" /\ call = NoCall
    /\ \E text \in BOOLEAN, dataOk \in BOOLEAN, lockOk \in BOOLEAN,
          lines \in SeqsUpTo(WindowsTextLines, MaxLines) :
          call' = [op |-> "WindowsTextTier",
                   args |-> [text |-> text, dataOk |-> dataOk, lockOk |-> lockOk,
                             lines |-> lines],
                   ret |-> WindowsTextTier([text |-> text, dataOk |-> dataOk,
                                            lockOk |-> lockOk, lines |-> lines])]
    /\ UNCHANGED <<platform, svcVars, clipVars, hVars>>

\* The two Linux tool chains by themselves, each tool with an outcome and an
\* output of its own.
UriChain == <<"xclip-uri", "wl-paste-uri">>
TextChain == <<"xclip-text", "xsel-text", "wl-paste-text">>
UriOutputs == { <<>>, << <<"file://", Sep, "a", ".", "txt">> >>,
                << <<"file://", Sep, "home", Sep, "b", ".", "txt">> >> }
TextOutputs == { <<>>, << <<Sep, "a", ".", "txt">> >>, << <<"~", Sep, "b", ".", "txt">> >> }

LinuxUriChainCall ==
    /\ platform = "linux" /\ call = NoCall
    /\ \E ok \in [{"xclip-uri", "wl-paste-uri"} -> BOOLEAN],
          outs \in [{"xclip-uri", "wl-paste-uri"} -> UriOutputs] :
          call' = [op |-> "LinuxUriChain", args |-> [ok |-> ok, outs |-> outs],
                   ret |-> LinuxUriTier(ok, outs)]
    /\ UNCHANGED <<platform, svcVars, clipVars, hVars>>

LinuxTextChainCall ==
    /\ platform = "linux" /\ call = NoCall
    /\ \E ok \in [{"xclip-text", "xsel-text", "wl-paste-text"} -> BOOLEAN],
          outs \in [{"xclip-text", "xsel-text", "wl-paste-text"} -> TextOutputs],
          homeOk \in BOOLEAN :
          call' = [op |-> "LinuxTextChain",
                   args |-> [ok |-> ok, outs |-> outs, homeOk |-> homeOk],
                   ret |-> LinuxTextTier(ok, outs, homeOk)]
    /\ UNCHANGED <<platform, svcVars, clipVars, hVars>>

NextTools ==
    \/ LinuxUriChainCall
    \/ LinuxTextChainCall

SpecTools == Init /\ [][NextTools]_vars

NextText ==
    \/ LinuxTextTierCall
    \/ WindowsTextTierCall

SpecText == Init /\ [][NextText]_vars

\* ----------------------------------------------------------------- claims
\* the position of an event in the history of the GetFiles call, 0 if absent
EventPos(e) ==
    IF \E i \in 1..Len(gfEvents) : gfEvents[i] = e
    THEN CHOOSE i \in 1..Len(gfEvents) :
            gfEvents[i] = e /\ \A j \in 1..Len(gfEvents) : gfEvents[j] = e => i <= j
    ELSE 0
\* a happened, and b did not happen before it
Before(a, b) == EventPos(a) > 0 /\ (EventPos(b) = 0 \/ EventPos(a) < EventPos(b))

\* GetFiles returned what the worker (or the script) produced
ReturnsWorkerOutcome ==
    IF platform \in GoroutinePlatforms
    THEN gfRet = IF wSent.chan = "result"
                 THEN [paths |-> wSent.paths, err |-> NoErr]
                 ELSE [paths |-> NilSlice, err |-> wSent.err]
    ELSE IF runRes.err = NoErr
         THEN gfRet = [paths |-> ScriptOutputPaths(runRes.pieces), err |-> NoErr]
         ELSE /\ gfRet.paths = NilSlice
              /\ Contains(gfRet.err, runRes.err)
              /\ ~IsTimeout(gfRet.err)

\* C1 (as stated): whenever the deadline elapsed before the worker
\* delivered its outcome, GetFiles returns the timeout error and a nil list.
C1_DeadlineFirstMeansTimeout ==
    gfPc = "returned" /\ Before("deadline", "deliver")
        => IsTimeout(gfRet.err) /\ gfRet.paths = NilSlice

\* C1 (amended): if the deadline has elapsed and the worker has not
\* delivered by the time GetFiles chooses what to return, it returns the
\* timeout error; and the timeout error is only ever returned with a nil
\* list and after the deadline has elapsed.
C1_TimeoutIsNilAndDue ==
    gfPc = "returned" =>
        /\ (Before("deadline", "return") /\ ~Before("deliver", "return")
                => IsTimeout(gfRet.err) /\ gfRet.paths = NilSlice)
        /\ (IsTimeout(gfRet.err)
                => gfRet.paths = NilSlice /\ Before("deadline", "return"))

C1_Witness ==
    /\ platform = "windows" /\ gfPc = "returned" /\ wPc = "done"
    /\ gfEvents = <<"deadline", "return", "deliver">>
    /\ IsTimeout(gfRet.err) /\ SliceLen(wSent.paths) > 0

\* C2 (as stated): whenever the worker delivered before the deadline
\* elapsed, GetFiles returns exactly the worker's outcome, never the timeout.
C2_WorkerFirstMeansOutcome ==
    gfPc = "returned" /\ Before("deliver", "deadline")
        => ReturnsWorkerOutcome /\ ~IsTimeout(gfRet.err)

\* C2 (amended): if the worker has delivered and the deadline has not
\* elapsed by the time GetFiles chooses what to return, it returns exactly
\* the worker's outcome; and whatever GetFiles returns other than the
\* timeout error is exactly the outcome the worker delivered.
C2_OutcomeIsTheWorkers ==
    gfPc = "returned" =>
        /\ (Before("deliver", "return") /\ ~Before("deadline", "return")
                => ReturnsWorkerOutcome /\ ~IsTimeout(gfRet.err))
        /\ (~IsTimeout(gfRet.err)
                => Before("deliver", "return") /\ ReturnsWorkerOutcome)

C2_Witness ==
    /\ platform = "linux" /\ gfPc = "returned"
    /\ gfEvents = <<"deliver", "return">>
    /\ gfRet.err = NoErr /\ SliceLen(gfRet.paths) = 2

\* C3 (as stated): construction never aborts the process: whatever the
\* configuration, the process is running afterwards and the service holds
\* a backend (the Empty one, with the error's text, when the constructor
\* failed).
C3_ConstructionNeverAborts ==
    /\ proc # "crashed"
    /\ (svc.constructed => svc.Storage.kind \in {"empty", "s3", "oss", "cos", "qiniu", "github"})

\* NewService has run (to its end, or into a panic)
ServiceAttempted == svc.constructed \/ proc = "crashed"

\* C4: once the Empty backend is selected, every UploadFile and Upload
\* call returns an empty URL and an error that contains the stored reason,
\* the same one at every call.
C4_EmptyBackendAlwaysFails ==
    svc.constructed /\ svc.Storage.kind = "empty" =>
        \A k \in 1..Len(svcCalls) :
            /\ svcCalls[k].ret.url = <<>>
            /\ svcCalls[k].ret.err # NoErr
            /\ Contains(svcCalls[k].ret.err, svc.Storage.info)
            /\ svcCalls[k].ret.err = svcCalls[1].ret.err

C4_Witness ==
    /\ svc.constructed /\ svc.Storage.kind = "empty" /\ svc.Storage.info # <<>>
    /\ Len(svcCalls) = 2
    /\ svcCalls[1].op = "UploadFile" /\ svcCalls[2].op = "Upload"

\* two type strings that differ at most in the case of their letters
SameFold(a, b) == Len(a) = Len(b) /\ \A i \in 1..Len(a) : LowerChar(a[i]) = LowerChar(b[i])
TypeOfCtor ==
    [s3 |-> StorageTypeS3, oss |-> StorageTypeOSS, cos |-> StorageTypeCOS,
     qiniu |-> StorageTypeQiniu, github |-> StorageTypeGitHub]

\* C5: the constructor that runs is decided by the storage-type string
\* alone, whatever its letter case: "s3", "oss", "cos", "qiniu" and
\* "github" run their constructor, every other string (the empty one,
\* "empty", an unknown one) gives the Empty backend with an empty reason.
C5_SelectionByTypeString ==
    ServiceAttempted =>
        /\ \A c \in DOMAIN TypeOfCtor :
              SameFold(svc.envType, TypeOfCtor[c]) <=> svc.ctor = c
        /\ (\A c \in DOMAIN TypeOfCtor : ~SameFold(svc.envType, TypeOfCtor[c]))
              => svc.ctor = "none" /\ svc.constructed /\ svc.Storage = EmptyNew(<<>>)

C5_Witness ==
    /\ svc.constructed /\ svc.envType = <<"G", "i", "t", "H", "u", "b">>
    /\ svc.ctor = "github" /\ svc.Storage.kind = "github"

\* the word of the message that names a field
FieldWord ==
    [AccessKey |-> "AccessKey", SecretKey |-> "SecretKey", BucketName |-> "BucketName",
     Domain |-> "domain", Token |-> "token", Owner |-> "owner", Repo |-> "name"]
MissingFields(cfg, fields) == {f \in fields : cfg[f] = <<>>}
QiniuRequired == {"AccessKey", "SecretKey", "BucketName", "Domain"}
GitHubRequired == {"Token", "Owner", "Repo"}
FallsBackNaming(missing) ==
    /\ svc.constructed /\ proc = "running"
    /\ svc.Storage.kind = "empty"
    /\ \E f \in missing : Contains(svc.Storage.info, <<FieldWord[f]>>)

\* C6: a Qiniu configuration with an empty access key, secret key, bucket
\* or domain, and a GitHub configuration with an empty token, owner or
\* repository, give the Empty backend with a reason that names a missing
\* field; the Qiniu or GitHub backend is built only with all of them set.
C6_RequiredFields ==
    ServiceAttempted =>
        /\ svc.ctor = "qiniu" =>
              LET missing == MissingFields(svc.Config.Qiniu, QiniuRequired)
              IN  /\ missing # {} => FallsBackNaming(missing)
                  /\ missing = {} /\ proc = "running" => svc.Storage.kind = "qiniu"
        /\ svc.ctor = "github" =>
              LET missing == MissingFields(svc.Config.GitHub, GitHubRequired)
              IN  /\ missing # {} => FallsBackNaming(missing)
                  /\ missing = {} => svc.Storage.kind = "github"
        /\ svc.Storage.kind = "qiniu" => MissingFields(svc.Config.Qiniu, QiniuRequired) = {}
        /\ svc.Storage.kind = "github" => MissingFields(svc.Config.GitHub, GitHubRequired) = {}

C6_Witness ==
    /\ svc.constructed /\ svc.ctor = "qiniu" /\ svc.Storage.kind = "empty"
    /\ MissingFields(svc.Config.Qiniu, QiniuRequired) = {"Domain"}
    /\ Contains(svc.Storage.info, <<"domain">>)

\* a path ValidatePaths must reject: empty, absent, or a directory
Invalid(p) == p = <<>> \/ Abs(p, platform) \notin FsFiles
IsValidationError(err) ==
    err = ErrPathEmpty \/ err = ErrPathDir \/ HasPrefix(err, <<"invalid path: ">>)
EventsOf(kinds) == SelectSeq(hTrace, LAMBDA e : e.ev \in kinds)

\* C7: uploadFiles validates the whole list before the first upload: with
\* an invalid path anywhere in the list the handler returns a validation
\* error and the backend is never called; an upload only follows validation.
C7_ValidateAllBeforeUpload ==
    hKind = "files" =>
        /\ (\E i \in 1..Len(hArgs) : Invalid(hArgs[i])) =>
              /\ EventsOf({"upload", "uploaded", "failed"}) = <<>>
              /\ hPc = "done" /\ hRet.result = NilResult /\ IsValidationError(hRet.err)
        /\ \A k \in 1..Len(hTrace) :
              hTrace[k].ev = "upload" => \E j \in 1..(k - 1) : hTrace[j].ev = "validate"

C7_Witness ==
    /\ hKind = "files" /\ hPc = "done" /\ Len(hArgs) = 2
    /\ ~Invalid(hArgs[1]) /\ Invalid(hArgs[2])
    /\ IsValidationError(hRet.err)

\* C8: the batch handlers upload one file at a time in input order, each
\* at most once, the next only after the previous returned successfully;
\* after the first failure nothing more is attempted and that error alone
\* is returned.
C8_SequentialFailFast ==
    LET u == EventsOf({"upload", "uploaded", "failed"})
    IN  /\ \A k \in 1..Len(u) :
              IF k % 2 = 1
              THEN u[k] = [ev |-> "upload", i |-> (k + 1) \div 2]
              ELSE u[k].ev \in {"uploaded", "failed"} /\ u[k].i = k \div 2
        /\ \A k \in 1..Len(u) : u[k].ev = "failed" => k = Len(u)
        /\ \A k \in 1..Len(u) : u[k].i <= Len(hItems)
        /\ hItems # <<>> =>
              /\ Len(hItems) = Len(hArgs)
              /\ \A i \in 1..Len(hItems) :
                    hItems[i] = IF hKind = "urls" THEN hArgs[i] ELSE Abs(hArgs[i], platform)
        /\ (\E k \in 1..Len(u) : u[k].ev = "failed") =>
              /\ hPc = "done" /\ hRet.result = NilResult
              /\ Contains(hRet.err, <<"failed to upload file to ", svc.Storage.kind>>)
                 \/ Contains(hRet.err, ErrNotConfigured)

C8_Witness ==
    /\ hPc = "done" /\ hKind = "files"
    /\ EventsOf({"upload", "uploaded", "failed"})
         = <<[ev |-> "upload", i |-> 1], [ev |-> "uploaded", i |-> 1],
             [ev |-> "upload", i |-> 2], [ev |-> "failed", i |-> 2]>>
    /\ hRet.err # NoErr

\* C9: in uploadUrlFiles the temporary file of a URL exists before that
\* URL's transfer starts, and every temporary file is removed by the time
\* the handler has returned, whichever way it returns.
C9_TempFilesRemoved ==
    /\ \A k \in 1..Len(hTrace) :
          hTrace[k].ev = "get" =>
              \E j \in 1..(k - 1) : hTrace[j] = [ev |-> "create", i |-> hTrace[k].i]
    /\ hPc = "done" =>
          /\ tempLive = {}
          /\ hTrace[Len(hTrace)].ev = "return"
          /\ \A k \in 1..Len(hTrace) :
                hTrace[k].ev = "create" =>
                    \E j \in (k + 1)..(Len(hTrace) - 1) :
                        hTrace[j] = [ev |-> "remove", i |-> hTrace[k].i]

C9_Witness ==
    /\ hKind = "urls" /\ hPc = "done" /\ hRet.err # NoErr /\ tempLive = {}
    /\ Len(EventsOf({"create"})) = 2 /\ Len(EventsOf({"remove"})) = 2

\* C10: when the clipboard holds no files (GetFiles returns an empty list
\* and no error) uploadClipboardFiles returns the success result "No files
\* found in clipboard." with no error, validating and uploading nothing.
C10_EmptyClipboardIsSuccess ==
    /\ hKind = "clipboard" /\ hPc # "clip"
    /\ gfPc = "returned" /\ gfRet.err = NoErr /\ SliceLen(gfRet.paths) = 0
    => /\ hPc = "done"
       /\ hRet = [result |-> TextResult("No files found in clipboard.", 0, <<>>),
                  err |-> NoErr]
       /\ EventsOf({"validate", "upload", "uploaded", "failed"}) = <<>>

C10_Witness ==
    /\ hKind = "clipboard" /\ hPc = "done"
    /\ gfRet.err = NoErr /\ gfRet.paths = MkSlice(<<>>)
    /\ hRet.result.msg = "No files found in clipboard."

\* C11: in uploadClipboardFiles a timeout of GetFiles is returned to the
\* caller as an error that carries the timeout, never as the "no files
\* found" result, and nothing is validated or uploaded.
C11_TimeoutIsAnError ==
    /\ hKind = "clipboard" /\ hPc # "clip"
    /\ gfPc = "returned" /\ IsTimeout(gfRet.err)
    => /\ hPc = "done"
       /\ hRet.result = NilResult
       /\ hRet.err # NoErr /\ Contains(hRet.err, gfRet.err)
       /\ EventsOf({"validate", "upload", "uploaded", "failed"}) = <<>>

C11_Witness ==
    /\ hKind = "clipboard" /\ hPc = "done"
    /\ gfPc = "returned" /\ IsTimeout(gfRet.err) /\ Before("deadline", "deliver")
    /\ hRet.err = <<"failed to get files from clipboard: ">> \o gfRet.err

\* the request's list was decoded and had n elements
ArgsDecoded(n) == \E k \in 1..Len(hTrace) : hTrace[k] = [ev |-> "args", i |-> n]

\* C12: uploadUrlFiles with an empty list of URLs returns the error "urls
\* cannot be empty" and does nothing: no temporary file, no download, no
\* upload.
C12_EmptyUrlsIsAnError ==
    hKind = "urls" /\ ArgsDecoded(0) =>
        /\ hPc = "done"
        /\ hRet = [result |-> NilResult, err |-> <<"urls cannot be empty">>]
        /\ tempLive = {}
        /\ EventsOf({"create", "get", "copy", "upload", "uploaded", "failed", "remove"}) = <<>>

C12_Witness ==
    /\ hKind = "urls" /\ ArgsDecoded(0) /\ hPc = "done"
    /\ hRet.err = <<"urls cannot be empty">> /\ hTrace[Len(hTrace)].ev = "return"

\* why ValidatePaths must reject a candidate, "none" when it must not
RejectReason(p) ==
    IF p = <<>> THEN "empty"
    ELSE IF Abs(p, platform) \notin FsFiles \cup FsDirs THEN "missing"
    ELSE IF Abs(p, platform) \in FsDirs THEN "dir"
    ELSE "none"
\* the first candidate to reject, 0 when there is none
FirstRejected(paths) ==
    IF \E i \in 1..Len(paths) : RejectReason(paths[i]) # "none"
    THEN CHOOSE i \in 1..Len(paths) :
            /\ RejectReason(paths[i]) # "none"
            /\ \A j \in 1..(i - 1) : RejectReason(paths[j]) = "none"
    ELSE 0
\* the reason an error message of ValidatePaths tells
ReasonTold(err) ==
    {r \in {"empty", "missing", "dir"} :
        \/ r = "empty" /\ err = <<"path cannot be empty">>
        \/ r = "dir" /\ err = <<"path cannot be a directory">>
        \/ r = "missing" /\ HasPrefix(err, <<"invalid path: ">>)}

\* C13: ValidatePaths rejects the empty string, a path that does not
\* exist and a directory, each with a non-empty message that tells that
\* reason and no other, so the three messages are pairwise distinct.
C13_ThreeDistinctRejections ==
    call.op = "ValidatePaths" =>
        LET k == FirstRejected(call.args)
        IN  /\ k > 0 <=> call.ret.err # NoErr
            /\ k > 0 => ReasonTold(call.ret.err) = {RejectReason(call.args[k])}

C13_Witness ==
    /\ call.op = "ValidatePaths" /\ Len(call.args) = 1
    /\ RejectReason(call.args[1]) = "dir"
    /\ call.ret.err = <<"path cannot be a directory">>

\* C14: ValidatePaths is all or nothing: with a rejected candidate it
\* returns no paths and the error of the first rejected candidate in input
\* order; with none it returns the absolute path of every candidate, in
\* input order.
C14_AllOrNothing ==
    call.op = "ValidatePaths" =>
        LET k == FirstRejected(call.args)
        IN  IF k > 0
            THEN /\ call.ret.paths = NilSlice
                 /\ ReasonTold(call.ret.err) = {RejectReason(call.args[k])}
                 /\ RejectReason(call.args[k]) = "missing"
                       => Contains(call.ret.err, Abs(call.args[k], platform))
            ELSE /\ call.ret.err = NoErr
                 /\ ~call.ret.paths.isNil
                 /\ call.ret.paths.elems
                       = [i \in 1..Len(call.args) |-> Abs(call.args[i], platform)]

C14_Witness ==
    /\ call.op = "ValidatePaths" /\ Len(call.args) = 2
    /\ RejectReason(call.args[1]) = "none" /\ RejectReason(call.args[2]) = "missing"
    /\ call.ret.paths = NilSlice /\ call.ret.err # NoErr

\* the value of a placeholder word in a call of FormatObjectKey
PlaceholderWords == {"filename", "ext", "timestamp", "uuid", "rand"}
ValueOf(word, filename, now) ==
    CASE word = "filename" -> TrimSuffix(filename, Ext(filename))
      [] word = "ext" -> Ext(filename)
      [] word = "timestamp" -> <<now.timestamp>>
      [] word = "uuid" -> <<now.uuid>>
      [] word = "rand" -> <<RandString(now.rand)>>
\* every placeholder occurrence of the template replaced by its value in
\* one pass: what a value puts in is not looked at again
RECURSIVE Simultaneous(_, _, _)
Simultaneous(format, filename, now) ==
    IF format = <<>> THEN <<>>
    ELSE IF /\ Len(format) >= 3 /\ format[1] = "{" /\ format[3] = "}"
            /\ format[2] \in PlaceholderWords
    THEN ValueOf(format[2], filename, now)
         \o Simultaneous(SubSeq(format, 4, Len(format)), filename, now)
    ELSE <<Head(format)>> \o Simultaneous(Tail(format), filename, now)

\* C15 (as stated): with a non-empty template the key is the simultaneous
\* substitution of every placeholder occurrence of the template by its
\* value; text a value brings in is not expanded again and the rest of the
\* template is passed through.
C15_SimultaneousSubstitution ==
    call.op = "FormatObjectKey" /\ call.args.format # <<>> =>
        call.ret = Simultaneous(call.args.format, call.args.filename, call.args.now)

\* C16: with the empty template the key is the Unix time in decimal, a
\* slash and the file name as given, nothing in the name being expanded.
C16_EmptyTemplate ==
    call.op = "FormatObjectKey" /\ call.args.format = <<>> =>
        call.ret = <<call.args.now.timestamp, "/">> \o call.args.filename

C16_Witness ==
    /\ call.op = "FormatObjectKey" /\ call.args.format = <<>>
    /\ call.args.filename = <<"{", "uuid", "}", ".", "txt">>
    /\ call.ret = <<"1700000000", "/", "{", "uuid", "}", ".", "txt">>

\* the template the claim names: FSM_FILE_FORMAT when set and not empty,
\* else "{timestamp}-{filename}{ext}"
ConfiguredTemplate ==
    IF svc.fileFormat # <<>> THEN svc.fileFormat
    ELSE <<"{", "timestamp", "}", "-", "{", "filename", "}", "{", "ext", "}">>
\* what the backend makes of a call that got this key
BackendReturn(c, key) ==
    IF c.op = "UploadFile"
    THEN {StorageUploadFile(svc.Storage, c.arg, key, net) : net \in NetOutcomes}
    ELSE {StorageUpload(svc.Storage, key, net) : net \in NetOutcomes}

\* C17: Service.UploadFile and Service.Upload call the backend exactly
\* once, with the key FormatObjectKey makes of the file's base name and
\* the configured template (FSM_FILE_FORMAT, or the default when that is
\* unset or empty), and return what the backend returns.
C17_KeyPassedToBackend ==
    \A k \in 1..Len(svcCalls) :
        LET c == svcCalls[k]
            name == IF c.op = "UploadFile" THEN Base(c.arg, platform) ELSE c.arg
            key == FormatObjectKey(name, ConfiguredTemplate, c.now)
        IN  /\ Len(c.sent) = 1
            /\ c.sent[1].op = c.op
            /\ c.sent[1].filename = key
            /\ c.op = "UploadFile" => c.sent[1].path = c.arg
            /\ c.ret \in BackendReturn(c, key)

C17_Witness ==
    /\ svc.constructed /\ svc.Storage.kind = "s3"
    /\ svc.fileFormat = <<"{", "uuid", "}", "{", "ext", "}">>
    /\ Len(svcCalls) = 2
    /\ svcCalls[1].op = "UploadFile" /\ svcCalls[1].arg = <<Sep, "home", Sep, "b", ".", "txt">>
    /\ svcCalls[1].ret.url
         = <<"url:", "s3", ":", "6ba7b810-9dad-11d1-80b4-00c04fd430c8", ".", "txt">>
    /\ svcCalls[2].op = "Upload" /\ svcCalls[2].ret.err # NoErr

\* the backends that sign the URLs they return
SigningBackends == {"s3", "oss", "cos", "qiniu"}
\* the URLExpiration the active backend was constructed from
ConfiguredExpiration(s) ==
    IF s.ctor = "s3" THEN s.Config.S3.URLExpiration
    ELSE IF s.ctor = "oss" THEN s.Config.OSS.URLExpiration
    ELSE IF s.ctor = "cos" THEN s.Config.COS.URLExpiration
    ELSE s.Config.Qiniu.URLExpiration
\* twice the width of an int64: no product of a count of seconds and 10^9
\* wraps in it
WideLimbs == 2 * Int64Limbs
\* the lifetime, in nanoseconds, of so many seconds
Seconds(secs) == TimesSecond(Widen(secs, WideLimbs))

\* C18: for S3, OSS, COS and Qiniu the lifetime of a signed URL is the
\* configured number of seconds when that number is positive and 604800
\* seconds when it is zero, negative, unset or not an integer, so it is always
\* strictly positive.
C18_LifetimeIsConfiguredOrSevenDays ==
    (svc.constructed /\ svc.Storage.kind \in SigningBackends) =>
        /\ Widen(svc.Storage.expiration, WideLimbs)
             = Seconds(IF svc.envExpiration # <<>> /\ IsPositive(ConfiguredExpiration(svc))
                       THEN ConfiguredExpiration(svc)
                       ELSE DefaultExpiration)
        /\ IsPositive(svc.Storage.expiration)

\* the worker's accesses that read or parse the clipboard's plain text
TextOps ==
    { "xclip-text", "xsel-text", "wl-paste-text",
      "CF_UNICODETEXT?", "GetClipboardData(CF_UNICODETEXT)", "parse",
      "getClipboardText", "parseFileNames", "findFilesByNames" }
ReadsText == \E i \in 1..Len(wOps) : wOps[i] \in TextOps
\* the resolver answers with the paths derived from the file references
AnswersFromFileReferences ==
    /\ ~ReadsText
    /\ wPc = "done"
    /\ wSent.chan = "result" /\ wSent.paths.elems = wProbe.derived
    /\ (gfPc = "returned" /\ gfRet.err = NoErr) => gfRet.paths.elems = wProbe.derived

\* C19 as stated: on every platform, once the file-reference format is
\* present with content the resolver answers with the paths derived from it
\* and never reads or parses the plain text, even when no path is derived.
C19_PresentMeansNoText == wProbe.present => AnswersFromFileReferences

\* C19 amended: on Windows, and on Linux and macOS when at least one path is
\* derived from the file references, the resolver answers with the derived
\* paths and never reads or parses the plain text; on Linux a URI list from
\* which no path is derived sends the worker on to the text tier.
C19_NoTextOnceAPathIsDerived ==
    /\ (wProbe.present /\ (platform = "windows" \/ wProbe.derived # <<>>))
          => AnswersFromFileReferences
    /\ (platform = "linux" /\ wProbe.present /\ wProbe.derived = <<>>)
          => (wPc = "text" \/ (wPc = "done" /\ ReadsText))
C19_Witness ==
    /\ platform = "windows" /\ wProbe.present /\ wProbe.derived = <<>>
    /\ gfPc = "returned" /\ gfRet.err = NoErr /\ ~ReadsText

\* the platform's heuristic for a line that is a path
DriveLetters == { UpperChars[i] : i \in 1..Len(UpperChars) }
                   \cup { LowerChars[i] : i \in 1..Len(LowerChars) }
LooksLikePath(line, plat) ==
    IF plat = "linux"
    THEN \/ (Len(line) >= 1 /\ line[1] = "/")
         \/ (Len(line) >= 2 /\ line[1] = "~" /\ line[2] = "/")
    ELSE \/ (Len(line) >= 3 /\ line[1] \in DriveLetters /\ line[2] = ":"
                            /\ line[3] \in {"\\", "/"})
         \/ (Len(line) >= 2 /\ line[1] = "\\" /\ line[2] = "\\")
\* the path a line stands for: the home directory for a leading "~" (when
\* the home directory is known), backslashes for slashes on Windows
PathOfLine(line, plat, homeOk) ==
    IF plat = "linux"
    THEN IF Len(line) >= 2 /\ line[1] = "~" /\ line[2] = "/" /\ homeOk
         THEN HomeDir \o SubSeq(line, 2, Len(line)) ELSE line
    ELSE [i \in 1..Len(line) |-> IF line[i] = "/" THEN "\\" ELSE line[i]]
\* the lines, trimmed, that are not blank, look like a path and exist
KeptLines(lines, plat, homeOk) ==
    { i \in 1..Len(lines) :
        /\ TrimSpace(lines[i]) # <<>>
        /\ LooksLikePath(TrimSpace(lines[i]), plat)
        /\ PathOfLine(TrimSpace(lines[i]), plat, homeOk) \in FsFiles \cup FsDirs }
\* list is the paths of the kept lines, in the order of the lines
IsKeptSubsequence(list, lines, plat, homeOk) ==
    /\ Len(list) = Cardinality(KeptLines(lines, plat, homeOk))
    /\ \A i \in KeptLines(lines, plat, homeOk) :
          list[Cardinality({j \in KeptLines(lines, plat, homeOk) : j <= i})]
             = PathOfLine(TrimSpace(lines[i]), plat, homeOk)

\* C20: the text tier (Linux, Windows) returns exactly the paths of the
\* trimmed non-blank clipboard lines that match the platform's heuristic and
\* exist on disk, in the order of the lines; the other lines are dropped and
\* never cause an error.
C20_TextTierKeepsExistingPathLines ==
    /\ call.op = "LinuxTextTier" =>
          /\ call.ret.send /\ call.ret.chan = "result" /\ call.ret.err = NoErr
          /\ IsKeptSubsequence(call.ret.paths.elems,
                               IF \E t \in DOMAIN call.args.ok : call.args.ok[t]
                               THEN call.args.out ELSE <<>>,
                               "linux", call.args.homeOk)
    /\ (call.op = "WindowsTextTier" /\ call.args.dataOk /\ call.args.lockOk) =>
          /\ call.ret.send /\ call.ret.chan = "result" /\ call.ret.err = NoErr
          /\ IsKeptSubsequence(call.ret.paths.elems,
                               IF call.args.text THEN call.args.lines ELSE <<>>,
                               "windows", TRUE)
C20_Witness ==
    /\ call.op \in {"LinuxTextTier", "WindowsTextTier"}
    /\ call.ret.chan = "result"
    /\ Len(call.ret.paths.elems) = 1
    /\ Len(IF call.op = "LinuxTextTier" THEN call.args.out ELSE call.args.lines) = MaxLines

\* the position in the chain of the first tool that succeeds, 0 if none does
FirstSuccess(chain, ok) ==
    IF \E i \in 1..Len(chain) : ok[chain[i]]
    THEN CHOOSE i \in 1..Len(chain) :
            ok[chain[i]] /\ \A j \in 1..(i - 1) : ~ok[chain[j]]
    ELSE 0
\* the tools of an ordered chain of probes that run: up to the first success
ProbesRun(chain, ok) ==
    SubSeq(chain, 1, IF FirstSuccess(chain, ok) = 0 THEN Len(chain)
                     ELSE FirstSuccess(chain, ok))
\* the output a chain of probes yields: the first successful tool's, if any
ProbeOutput(chain, ok, outs) ==
    IF FirstSuccess(chain, ok) = 0 THEN <<>> ELSE outs[chain[FirstSuccess(chain, ok)]]

\* C21: on Linux each tool chain runs its tools in order up to the first
\* that succeeds and no further, and the output used is that tool's.
C21_FirstSuccessWins ==
    /\ call.op = "LinuxUriChain" =>
          /\ call.ret.ops = ProbesRun(UriChain, call.args.ok)
          /\ call.ret.paths.elems
               = LinuxUriPaths(ProbeOutput(UriChain, call.args.ok, call.args.outs))
    /\ call.op = "LinuxTextChain" =>
          /\ call.ret.ops = ProbesRun(TextChain, call.args.ok)
          /\ call.ret.paths.elems
               = ExistingPaths(LinuxParseFilePaths(
                     ProbeOutput(TextChain, call.args.ok, call.args.outs),
                     call.args.homeOk))
C21_Witness ==
    /\ call.op = "LinuxTextChain"
    /\ ~call.args.ok["xclip-text"] /\ call.args.ok["xsel-text"]
    /\ call.args.ok["wl-paste-text"]
    /\ call.args.outs["xsel-text"] # call.args.outs["wl-paste-text"]
    /\ call.args.outs["xsel-text"] # call.args.outs["xclip-text"]
    /\ call.ret.ops = <<"xclip-text", "xsel-text">>
    /\ call.ret.paths.elems # <<>>

\* the download of the response recorded at position k of the trace went
\* on: the body was copied, and unless the copy failed the file was uploaded
DownloadWentOn(k) ==
    /\ \E j \in (k + 1)..Len(hTrace) : hTrace[j] = [ev |-> "copy", i |-> hTrace[k].i]
    /\ \/ hRet.err # NoErr /\ hRet.err[1] = "failed to save downloaded file: "
       \/ \E j \in (k + 1)..Len(hTrace) : hTrace[j] = [ev |-> "upload", i |-> hTrace[k].i]
\* the download recorded at position k ended the batch: nothing is copied or
\* uploaded for its URL, no later URL is touched, the handler returns an error
DownloadEndedBatch(k) ==
    /\ hRet.err # NoErr /\ hRet.result = NilResult
    /\ \A j \in (k + 1)..Len(hTrace) :
          hTrace[j].ev \in {"get", "remove", "return"} /\ hTrace[j].i <= hTrace[k].i

\* C22 as stated: a download fails exactly when the transfer fails or the
\* status is not 2xx; a failed download ends the batch with an error and
\* nothing more is downloaded or uploaded; a 2xx download is uploaded.
C22_FailsIffNot2xx ==
    hPc = "done" =>
        \A k \in 1..Len(hTrace) :
            hTrace[k].ev = "resp" =>
                IF hTrace[k].resp.failed \/ hTrace[k].resp.status < 200
                                         \/ hTrace[k].resp.status > 299
                THEN DownloadEndedBatch(k) ELSE DownloadWentOn(k)

\* C22 amended: a download fails exactly when the transfer fails or the
\* status is not 200.
C22_FailsIffNot200 ==
    hPc = "done" =>
        \A k \in 1..Len(hTrace) :
            hTrace[k].ev = "resp" =>
                IF hTrace[k].resp.failed \/ hTrace[k].resp.status # 200
                THEN DownloadEndedBatch(k) ELSE DownloadWentOn(k)
C22_Witness ==
    /\ hPc = "done" /\ hKind = "urls" /\ Len(hArgs) = 2
    /\ \E k \in 1..Len(hTrace) :
          /\ hTrace[k].ev = "resp" /\ hTrace[k].i = 2 /\ hTrace[k].resp.status = 204
    /\ \E k \in 1..Len(hTrace) : hTrace[k] = [ev |-> "uploaded", i |-> 1]
    /\ hRet.err # NoErr

WorkerRuns ==
    \/ LinuxWorkerUri \/ LinuxWorkerText
    \/ WindowsWorkerFile \/ WindowsWorkerText
    \/ CocoaWorkerFile \/ CocoaWorkerText
Delivered == SelectSeq(gfEvents, LAMBDA e : e = "deliver")
Received == gfPc = "returned" /\ gfRet.err # ErrTimeoutGet
InChannels ==
    [i \in 1..Len(resultChan) |-> [chan |-> "result", paths |-> resultChan[i], err |-> NoErr]]
    \o [i \in 1..Len(errChan) |-> [chan |-> "err", paths |-> NilSlice, err |-> errChan[i]]]
C24_OneMessageNeverBlocked ==
    platform \in GoroutinePlatforms =>
        /\ wPc \in {"file", "text"} =>
              /\ wSent = NotSent /\ Delivered = <<>> /\ InChannels = <<>>
              /\ ENABLED WorkerRuns
        /\ wPc = "done" =>
              /\ wSent.chan \in {"result", "err"}
              /\ Len(Delivered) = 1
              /\ wSent.chan = "result" => wSent.err = NoErr
              /\ wSent.chan = "err" => wSent.err # NoErr /\ wSent.paths = NilSlice
              /\ InChannels = IF Received THEN <<>> ELSE <<wSent>>
C24_Witness ==
    /\ platform = "windows" /\ wPc = "done"
    /\ gfPc = "returned" /\ gfRet.err = ErrTimeoutGet
    /\ gfEvents = <<"deadline", "return", "deliver">>
    /\ wSent.chan = "err" /\ errChan = <<wSent.err>> /\ resultChan = <<>>

\* C25: whenever NewQiniuClient succeeds, the domain stored in the client is
\* not empty, begins with "http" and does not end with "/", and it succeeds
\* for every configured domain that is not empty, a short one or one made of
\* "/" included.
QiniuBuilt == svc.constructed /\ svc.Storage.kind = "qiniu"
QiniuComplete ==
    /\ ToLower(svc.Config.StorageType) = StorageTypeQiniu
    /\ svc.Config.Qiniu.AccessKey # <<>> /\ svc.Config.Qiniu.SecretKey # <<>>
    /\ svc.Config.Qiniu.BucketName # <<>> /\ svc.Config.Qiniu.Domain # <<>>
C25_StoredDomainWellFormed ==
    /\ QiniuBuilt =>
          LET domain == svc.Storage.domain
          IN  /\ domain # <<>>
              /\ Len(domain) >= 4 /\ SubSeq(domain, 1, 4) = HttpPrefix
              /\ domain[Len(domain)] # "/"
    /\ (ServiceAttempted /\ QiniuComplete) => QiniuBuilt

\* C26: when a batch handler fails at an item after the first, the items
\* before it were uploaded and stay uploaded (nothing after the failure but
\* the removal of temp files and the return), and the handler returns the
\* error with no result: none of their URLs is reported.
FailedInLoop == hPc = "done" /\ hRet.err # NoErr /\ hIdx > 1
C26_FailedBatchReportsNoUrl ==
    FailedInLoop =>
        /\ \A k \in 1..(hIdx - 1) :
              /\ \E n \in 1..Len(hTrace) : hTrace[n] = [ev |-> "uploaded", i |-> k]
              /\ hUrls[k].i = k /\ hUrls[k].url # <<>>
        /\ Len(EventsOf({"uploaded"})) = hIdx - 1
        /\ \A n \in 1..Len(hTrace) :
              hTrace[n].ev \in {"args", "validate", "create", "resp", "get", "copy", "upload",
                                "uploaded", "failed", "remove", "return"}
        /\ hRet.result = NilResult
C26_Witness ==
    /\ FailedInLoop /\ hKind = "files" /\ hIdx = MaxItems
    /\ hTrace[Len(hTrace) - 1] = [ev |-> "failed", i |-> MaxItems]
    /\ Len(hUrls) = MaxItems - 1 /\ hRet.result = NilResult

\* C27: in uploadUrlFiles the temp files are removed at the return of the
\* handler only: while URL k is being downloaded or uploaded the temp files
\* of the k-1 URLs before it all still exist, and no removal happens before
\* the handler's last step, which removes them together.
InUrlLoop == hKind = "urls" /\ hPc \in {"create", "get", "copy", "upload", "uploading"}
C27_TempFilesLiveUntilReturn ==
    /\ InUrlLoop =>
          /\ \A k \in 1..(hIdx - 1) : k \in tempLive
          /\ hPc \in {"get", "copy", "upload", "uploading"} => hIdx \in tempLive
          /\ EventsOf({"remove"}) = <<>>
          /\ hDefers = [k \in 1..Len(hDefers) |-> k]
          /\ tempLive = {hDefers[k] : k \in 1..Len(hDefers)}
    /\ (hKind = "urls" /\ hPc = "done") =>
          /\ tempLive = {}
          /\ \A n \in 1..Len(hTrace) :
                hTrace[n].ev = "remove" =>
                    \A m \in (n + 1)..Len(hTrace) : hTrace[m].ev \in {"remove", "return"}
C27_Witness ==
    /\ hKind = "urls" /\ hPc = "uploading" /\ hIdx = MaxItems
    /\ tempLive = 1..MaxItems /\ EventsOf({"remove"}) = <<>>

\* the values the calls can draw, by kind
Timestamps == {n.timestamp : n \in Nows}
Uuids == {n.uuid : n \in Nows}
RandStrings == {RandString(n.rand) : n \in Nows}
Alnum == {LowerChars[i] : i \in 1..Len(LowerChars)} \cup {UpperChars[i] : i \in 1..Len(UpperChars)}
         \cup {DigitChars[i] : i \in 1..Len(DigitChars)}
RECURSIVE Occurrences(_, _)
Occurrences(s, pat) ==
    IF Len(s) < Len(pat) THEN 0
    ELSE IF SubSeq(s, 1, Len(pat)) = pat
    THEN 1 + Occurrences(SubSeq(s, Len(pat) + 1, Len(s)), pat)
    ELSE Occurrences(Tail(s), pat)
TimesIn(s, tok) == Len(SelectSeq(s, LAMBDA e : e = tok))

\* C28: in one call of FormatObjectKey with a template every {uuid} gets the
\* same identifier, every {rand} the same string of six characters of
\* [A-Za-z0-9] and every {timestamp} the same decimal time: the key holds no
\* second value of a kind, and the one value stands at least as often as its
\* placeholder is written in the template.
C28_OneValuePerCall ==
    call.op = "FormatObjectKey" /\ call.args.format # <<>> =>
        LET now == call.args.now
            ret == call.ret
            parts == {ret[i] : i \in 1..Len(ret)}
            chars == [i \in 1..Len(now.rand) |-> Charset[now.rand[i] + 1]]
            randStr == chars[1] \o chars[2] \o chars[3] \o chars[4] \o chars[5] \o chars[6]
        IN  /\ parts \cap Timestamps \subseteq {now.timestamp}
            /\ TimesIn(ret, now.timestamp)
                   >= Occurrences(call.args.format, Placeholder("timestamp"))
            /\ parts \cap Uuids \subseteq {now.uuid}
            /\ TimesIn(ret, now.uuid) >= Occurrences(call.args.format, Placeholder("uuid"))
            /\ Len(now.rand) = 6 /\ Len(randStr) = 6
            /\ \A i \in 1..6 : chars[i] \in Alnum
            /\ parts \cap RandStrings \subseteq {randStr}
            /\ TimesIn(ret, randStr) >= Occurrences(call.args.format, Placeholder("rand"))
C28_Witness ==
    /\ call.op = "FormatObjectKey"
    /\ call.args.format = Placeholder("uuid") \o Placeholder("rand") \o Placeholder("uuid")
    /\ call.ret = <<"6ba7b810-9dad-11d1-80b4-00c04fd430c8", "x7Kq2Z",
                    "6ba7b810-9dad-11d1-80b4-00c04fd430c8">>

\* C29: on Linux the worker never sends on the error channel, so GetFiles
\* returns no error but the timeout; when every clipboard tool fails the
\* worker sends an empty list, and uploadClipboardFiles, having received
\* it, returns the result "No files found in clipboard." with no error.
AllToolsFailed == wPc = "done" /\ wProbe.failed
C29_LinuxOnlyTimesOut ==
    platform = "linux" =>
        /\ errChan = <<>> /\ wSent.chan # "err" /\ wSent.err = NoErr
        /\ gfPc = "returned" => gfRet.err \in {NoErr, ErrTimeoutGet}
        /\ AllToolsFailed =>
              /\ wOps = <<"xclip-uri", "wl-paste-uri", "xclip-text", "xsel-text", "wl-paste-text">>
              /\ wSent = [chan |-> "result", paths |-> MkSlice(<<>>), err |-> NoErr]
              /\ (gfPc = "returned" /\ gfRet.err = NoErr) => gfRet.paths = MkSlice(<<>>)
              /\ (hKind = "clipboard" /\ hPc = "done" /\ gfRet.err = NoErr) =>
                    hRet = [result |-> TextResult("No files found in clipboard.", 0, <<>>),
                            err |-> NoErr]
C29_Witness ==
    /\ platform = "linux" /\ AllToolsFailed
    /\ hKind = "clipboard" /\ hPc = "done"
    /\ hRet.err = NoErr /\ hRet.result.msg = "No files found in clipboard."

\* C30: the paths of the file-reference tier are sent as they are, without
\* a look at the disk, so when uploadClipboardFiles gets from that tier a
\* list with one reference that is missing or a directory, ValidatePaths
\* rejects the list: the handler returns the validation error, no result,
\* and uploads none of the files.
FromFileReferences == wPc = "done" /\ ~ReadsText /\ wProbe.present /\ wSent.chan = "result"
Rejected(p) == ~StatOk(Abs(p, platform)) \/ IsDir(Abs(p, platform))
HandlerHasClipboardPaths ==
    hKind = "clipboard" /\ hPc \in {"upload", "uploading", "done"} /\ gfRet.err = NoErr
C30_FileReferencesUnchecked ==
    FromFileReferences =>
        /\ wSent.paths.elems = wProbe.derived
        /\ (/\ HandlerHasClipboardPaths
            /\ \E i \in 1..Len(gfRet.paths.elems) : Rejected(gfRet.paths.elems[i]))
              => /\ hPc = "done"
                 /\ hRet.result = NilResult /\ IsValidationError(hRet.err)
                 /\ EventsOf({"upload", "uploaded", "failed"}) = <<>>
C30_Witness ==
    /\ platform = "linux" /\ FromFileReferences /\ HandlerHasClipboardPaths
    /\ gfRet.paths.elems = <<<<Sep, "a", ".", "txt">>, <<Sep, "no", " ", "file">>>>
    /\ hPc = "done" /\ hRet.result = NilResult /\ IsValidationError(hRet.err)

====
